---- MODULE Spec2Model ----
(***************************************************************************)
(* A model of the conversational tool-orchestration engine of the          *)
(* flashcards application:                                                 *)
(*   - the agent continuation loop (AgentChat.js continueConversation      *)
(*     driving the server's agent.Service.ProcessMessage),                 *)
(*   - the structured decision steps of the quiz protocols                 *)
(*     (ConfigureQuiz, ConfigureQuizV2, ConductQuiz, ConductQuizV2,        *)
(*     RankNotes),                                                         *)
(*   - the fuzzy note search (NoteService.SearchNotesByContent),           *)
(*   - the read_note tool of the agent (ReadNoteTool.Call),                *)
(*   - the quiz store (QuizStoreService.CreateQuiz, UpdateQuiz),           *)
(*   - the quiz page (QuizV2.js) with its requests and timers.             *)
(***************************************************************************)
EXTENDS Integers, Sequences, FiniteSets, Bags, TLC

VARIABLES
    messages,      \* AgentChat: the displayed conversation (useState messages)
    loading,       \* AgentChat: the loading flag
    cstate,        \* AgentChat: "idle", "inflight" (awaiting agentApi.chat) or "timer" (setTimeout pending)
    reqMessages,   \* the argument of the running continueConversation call
    resp,          \* the HTTP response of /agent/chat that has not been handled yet
    provider,      \* server: the outcome of the last client.Messages.New call
    providerCalls, \* server: the client.Messages.New calls made since the last sendMessage
    toolExecs,     \* server: the tool names executeTool was called with in the last round
    toasts,        \* AgentChat: number of error toasts shown since the last send (0 or 1)
    notes,         \* the note store: what NoteService.GetAllNotes returns
    quiz,          \* the last decision step that ran: its inputs, the provider response and its result
    search,        \* the last SearchNotesByContent call: its terms and the notes it returned
    tool,          \* the last agent tool call: its input and its result
    quizzes,       \* the quiz store: the records of gocourse.quizzes, in id order
    store,         \* the last QuizStoreService call: its request and its outcome
    ui,            \* QuizV2: the component's quizState and its loading flag
    calls          \* QuizV2: the bag of requests awaited and timers pending, each with what its handler closed over

vars == <<messages, loading, cstate, reqMessages, resp, provider, providerCalls, toolExecs, toasts, notes, quiz, search, tool, quizzes, store, ui, calls>>

agentVars == <<messages, loading, cstate, reqMessages, resp, provider, providerCalls, toolExecs, toasts>>

quizV2Vars == <<quizzes, store, ui, calls>>

-----------------------------------------------------------------------------
(* Bounds of the model *)

\* the longest conversation the model lets a provider round produce
MaxMsgs == 6

\* the most content blocks in one provider response
MaxBlocks == 2

\* the most tool calls in one response to a decision step
MaxToolCalls == 2

\* the most note ids in one RankNotes / ConductQuiz request
MaxIDs == 2

\* the most entries in the rankings the provider returns
MaxRankings == 2

\* the most search terms in one SearchNotesByContent call
MaxTerms == 2

-----------------------------------------------------------------------------
(* Sequences of bounded length *)

SeqsUpTo(S, n) == UNION {[1..k -> S] : k \in 0..n}

Last(s) == s[Len(s)]

IsPrefix(s, t) == Len(s) <= Len(t) /\ SubSeq(t, 1, Len(s)) = s

-----------------------------------------------------------------------------
(* Conversation model: models.AgentMessage, ToolCall, ToolResult *)

AgentMessage(role, content, toolCalls, toolResults) ==
    [role |-> role, content |-> content, tool_calls |-> toolCalls, tool_results |-> toolResults]

ToolCall(id, name, arguments) == [id |-> id, name |-> name, arguments |-> arguments]

ToolResult(toolCallID, content) == [tool_call_id |-> toolCallID, content |-> content]

\* JSON values a provider may put in the "city" field of a tool input
CityString == [kind |-> "string", value |-> "Paris"]
CityNumber == [kind |-> "number", value |-> "5"]

\* the blocks of an Anthropic response: text blocks and tool_use blocks
TextBlock == [type |-> "text", text |-> "ok", id |-> "", name |-> "", input |-> CityString]

ToolUseBlock(id, name, input) == [type |-> "tool_use", text |-> "", id |-> id, name |-> name, input |-> input]

ToolUseIDs == {"tu1", "tu2"}

ToolUseBlocks ==
    {ToolUseBlock(id, "get_weather", CityString) : id \in ToolUseIDs}
    \cup {ToolUseBlock(id, "get_weather", CityNumber) : id \in ToolUseIDs}
    \cup {ToolUseBlock(id, "get_time", CityString) : id \in ToolUseIDs}

ContentBlocks == {TextBlock} \cup ToolUseBlocks

\* what client.Messages.New can return: an error, or a message of content blocks
ProviderFailure == [err |-> TRUE, content |-> <<>>]

ProviderMessage(content) == [err |-> FALSE, content |-> content]

ProviderResponses == {ProviderFailure} \cup {ProviderMessage(c) : c \in SeqsUpTo(ContentBlocks, MaxBlocks)}

-----------------------------------------------------------------------------
(* Tool registry and dispatch *)

\* Go's (string, error) result
Ok(v) == [err |-> FALSE, value |-> v, msg |-> ""]
Err(m) == [err |-> TRUE, value |-> "", msg |-> m]

\* WeatherTool.Name
WeatherToolName == "get_weather"

\* WeatherTool.Call: json.Unmarshal into WeatherToolInput{City string} fails on a non-string city
WeatherToolCall(input) ==
    IF input.kind # "string"
    THEN Err("failed to parse weather tool input: json: cannot unmarshal " \o input.kind
             \o " into Go struct field WeatherToolInput.city of type string")
    ELSE Ok("The weather in " \o input.value \o " is 20 degrees")

\* NewService: the registered tools (TimeTool is commented out)
RegisteredTools == <<WeatherToolName>>

RECURSIVE executeToolFrom(_, _, _)
executeToolFrom(i, toolName, arguments) ==
    IF i > Len(RegisteredTools) THEN Err("tool " \o toolName \o " not found")
    ELSE IF RegisteredTools[i] = toolName THEN WeatherToolCall(arguments)
    ELSE executeToolFrom(i + 1, toolName, arguments)

\* Service.executeTool: linear scan of the registry by name
executeTool(toolName, arguments) == executeToolFrom(1, toolName, arguments)


-----------------------------------------------------------------------------
(* agent.Service.ProcessMessage: one provider round *)

\* the response.Content loop: the tool_use blocks, in response order
ToolUses(content) == SelectSeq(content, LAMBDA b : b.type = "tool_use")

RECURSIVE ConcatText(_)
\* the response.Content loop: assistantContent += block.Text
ConcatText(content) ==
    IF content = <<>> THEN ""
    ELSE (IF Head(content).type = "text" THEN Head(content).text ELSE "") \o ConcatText(Tail(content))

\* faulty variant: the assistant message is built without its tool calls
AssistantMsgOmitsToolCalls(content) ==
    AgentMessage("assistant", ConcatText(content), <<>>, <<>>)

\* the assistant message with one ToolCall per tool_use block
AssistantMsg(content) ==
    LET toolUses == ToolUses(content)
    IN AgentMessage("assistant", ConcatText(content),
                    [i \in 1..Len(toolUses) |->
                        ToolCall(toolUses[i].id, toolUses[i].name, toolUses[i].input)],
                    <<>>)

\* faulty variant: the error of executeTool is dropped instead of being turned into text
ToolResultContentDropsError(toolUse) ==
    LET r == executeTool(toolUse.name, toolUse.input)
    IN r.value

\* result, err := s.executeTool(...); if err != nil { result = "Error: ..." }
ToolResultContent(toolUse) ==
    LET r == executeTool(toolUse.name, toolUse.input)
    IN IF r.err THEN "Error: " \o r.msg ELSE r.value

\* faulty variant: the tool messages are appended in reverse order
ToolMessagesReversed(toolUses) ==
    [i \in 1..Len(toolUses) |->
        LET u == toolUses[Len(toolUses) + 1 - i]
        IN AgentMessage("tool", "", <<>>, <<ToolResult(u.id, ToolResultContent(u))>>)]

\* the tool-execution loop: one tool message per tool use, in order
ToolMessages(toolUses) ==
    [i \in 1..Len(toolUses) |->
        AgentMessage("tool", "", <<>>, <<ToolResult(toolUses[i].id, ToolResultContent(toolUses[i]))>>)]

\* the tool names executeTool is called with during the round
ToolsExecuted(toolUses) == [i \in 1..Len(toolUses) |-> toolUses[i].name]

\* faulty variant: the tool messages are appended before the assistant message
ProcessMessageToolsBeforeAssistant(msgs, response) ==
    IF response.err
    THEN [err |-> TRUE, messages |-> <<>>, executed |-> <<>>, calls |-> 1]
    ELSE LET toolUses == ToolUses(response.content)
         IN [err |-> FALSE,
             messages |-> (msgs \o ToolMessages(toolUses)) \o <<AssistantMsg(response.content)>>,
             executed |-> ToolsExecuted(toolUses),
             calls |-> 1]

\* faulty variant: the round starts from the input without its oldest message
ProcessMessageDropsOldest(msgs, response) ==
    IF response.err
    THEN [err |-> TRUE, messages |-> <<>>, executed |-> <<>>, calls |-> 1]
    ELSE LET toolUses == ToolUses(response.content)
             updatedMessages == Append(Tail(msgs), AssistantMsg(response.content))
         IN [err |-> FALSE,
             messages |-> IF Len(toolUses) > 0
                          THEN updatedMessages \o ToolMessages(toolUses)
                          ELSE updatedMessages,
             executed |-> ToolsExecuted(toolUses),
             calls |-> 1]

\* ProcessMessage(messages) for a given outcome of client.Messages.New
ProcessMessage(msgs, response) ==
    IF response.err
    THEN [err |-> TRUE, messages |-> <<>>, executed |-> <<>>, calls |-> 1]
    ELSE LET toolUses == ToolUses(response.content)
             updatedMessages == Append(msgs, AssistantMsg(response.content))
         IN [err |-> FALSE,
             messages |-> IF Len(toolUses) > 0
                          THEN updatedMessages \o ToolMessages(toolUses)
                          ELSE updatedMessages,
             executed |-> ToolsExecuted(toolUses),
             calls |-> 1]

\* AgentHandler.ProcessMessage: rejects an empty message list, else runs the service
HandlerProcessMessage(msgs, response) ==
    IF Len(msgs) = 0
    THEN [status |-> "err", messages |-> <<>>, executed |-> <<>>, calls |-> 0]
    ELSE LET r == ProcessMessage(msgs, response)
         IN [status |-> IF r.err THEN "err" ELSE "ok", messages |-> r.messages,
             executed |-> r.executed, calls |-> r.calls]

NoResponse == [status |-> "none", messages |-> <<>>]

\* the provider responses the model admits for a request: a response that asks
\* for tools must leave room for the terminal assistant message
Admitted(msgs, response) ==
    \/ response.err
    \/ /\ Len(ToolUses(response.content)) = 0
       /\ Len(msgs) + 1 <= MaxMsgs
    \/ /\ Len(ToolUses(response.content)) > 0
       /\ Len(msgs) + 1 + Len(ToolUses(response.content)) + 1 <= MaxMsgs

-----------------------------------------------------------------------------
(* Text: strings of the note search are sequences of one-character strings *)

UpperCase == <<"A", "B", "C", "D", "E", "F", "G", "H", "I", "J", "K", "L", "M",
               "N", "O", "P", "Q", "R", "S", "T", "U", "V", "W", "X", "Y", "Z">>
LowerCase == <<"a", "b", "c", "d", "e", "f", "g", "h", "i", "j", "k", "l", "m",
               "n", "o", "p", "q", "r", "s", "t", "u", "v", "w", "x", "y", "z">>

LowerChar(c) ==
    IF \E i \in 1..Len(UpperCase) : UpperCase[i] = c
    THEN LowerCase[CHOOSE i \in 1..Len(UpperCase) : UpperCase[i] = c]
    ELSE c

\* strings.ToLower
ToLower(str) == [i \in 1..Len(str) |-> LowerChar(str[i])]

IsSpace(c) == c \in {" ", "\t", "\n"}

RECURSIVE FieldsFrom(_, _)
\* strings.Fields: cur is the word being read, rest the text still to read
FieldsFrom(cur, rest) ==
    IF rest = <<>> THEN (IF cur = <<>> THEN <<>> ELSE <<cur>>)
    ELSE IF IsSpace(Head(rest))
         THEN (IF cur = <<>> THEN <<>> ELSE <<cur>>) \o FieldsFrom(<<>>, Tail(rest))
         ELSE FieldsFrom(Append(cur, Head(rest)), Tail(rest))

Fields(str) == FieldsFrom(<<>>, str)

\* strings.Contains
Contains(str, substr) ==
    \E i \in 0..(Len(str) - Len(substr)) : SubSeq(str, i + 1, i + Len(substr)) = substr

\* the cutset of noteMatchesSearch: .,!?;:()[]{}"'-
Cutset == {".", ",", "!", "?", ";", ":", "(", ")", "[", "]", "{", "}", "\"", "'", "-"}

RECURSIVE TrimLeft(_)
TrimLeft(w) == IF w # <<>> /\ Head(w) \in Cutset THEN TrimLeft(Tail(w)) ELSE w

RECURSIVE TrimRight(_)
TrimRight(w) == IF w # <<>> /\ Last(w) \in Cutset THEN TrimRight(SubSeq(w, 1, Len(w) - 1)) ELSE w

\* strings.Trim(word, cutset)
TrimCutset(w) == TrimRight(TrimLeft(w))

RECURSIVE JoinStrings(_, _)
\* strings.Join
JoinStrings(strs, sep) ==
    IF strs = <<>> THEN <<>>
    ELSE IF Len(strs) = 1 THEN strs[1]
    ELSE strs[1] \o sep \o JoinStrings(Tail(strs), sep)

-----------------------------------------------------------------------------
(* NoteService: the fuzzy content matcher *)

\* the index of the first occurrence of c in target, 0 if there is none
IndexOf(c, target) ==
    IF \E i \in 1..Len(target) : target[i] = c
    THEN CHOOSE i \in 1..Len(target) : target[i] = c /\ \A j \in 1..(i - 1) : target[j] # c
    ELSE 0

RECURSIVE RankLoop(_, _, _)
\* the Outer loop of fuzzysearch's rank: every rune of source is looked up in what
\* is left of target; skipped runes are counted
RankLoop(source, target, runeDiff) ==
    IF source = <<>> THEN runeDiff + Len(target)
    ELSE LET i == IndexOf(Head(source), target)
         IN IF i = 0 THEN -1
            ELSE RankLoop(Tail(source), SubSeq(target, i + 1, Len(target)), runeDiff + (i - 1))

\* fuzzy.RankMatchFold(source, target)
RankMatchFold(source, target) ==
    LET lenDiff == Len(target) - Len(source)
        src == ToLower(source)
        tgt == ToLower(target)
    IN IF lenDiff < 0 THEN -1
       ELSE IF lenDiff = 0 /\ src = tgt THEN 0
       ELSE RankLoop(src, tgt, 0)

\* faulty variant: short terms get the threshold of medium terms
calculateMaxDistanceLooseForShortTerms(term) ==
    LET termLen == Len(term)
    IN IF termLen <= 7 THEN 2
       ELSE 3

\* NoteService.calculateMaxDistance
calculateMaxDistance(term) ==
    LET termLen == Len(term)
    IN IF termLen <= 4 THEN 1
       ELSE IF termLen <= 7 THEN 2
       ELSE 3

\* step 2 of noteMatchesSearch: the trimmed words longer than 2 characters
CleanWords(words) ==
    SelectSeq([i \in 1..Len(words) |-> TrimCutset(words[i])], LAMBDA w : Len(w) > 2)

\* faulty variant: the substring step is skipped, every term goes to the fuzzy step
TermMatchesWithoutSubstringStep(noteContent, words, term) ==
    LET termLower == ToLower(term)
    IN \E k \in 1..Len(CleanWords(words)) :
            LET distance == RankMatchFold(termLower, CleanWords(words)[k])
            IN distance # -1 /\ distance <= calculateMaxDistance(termLower)

\* one iteration of the loop over searchTerms
TermMatches(noteContent, words, term) ==
    LET termLower == ToLower(term)
    IN \/ Contains(noteContent, termLower)
       \/ \E k \in 1..Len(CleanWords(words)) :
            LET distance == RankMatchFold(termLower, CleanWords(words)[k])
            IN distance # -1 /\ distance <= calculateMaxDistance(termLower)

\* faulty variant: a note has to match every term
noteMatchesSearchEveryTerm(note, searchTerms) ==
    LET noteContent == ToLower(note.content)
        words == Fields(noteContent)
    IN \A t \in 1..Len(searchTerms) : TermMatches(noteContent, words, searchTerms[t])

\* NoteService.noteMatchesSearch
noteMatchesSearch(note, searchTerms) ==
    LET noteContent == ToLower(note.content)
        words == Fields(noteContent)
    IN \E t \in 1..Len(searchTerms) : TermMatches(noteContent, words, searchTerms[t])

\* NoteService.SearchNotesByContent over the notes GetAllNotes returned
SearchNotesByContent(allNotes, searchTerms) ==
    IF Len(searchTerms) = 0 THEN allNotes
    ELSE SelectSeq(allNotes, LAMBDA note : noteMatchesSearch(note, searchTerms))

-----------------------------------------------------------------------------
(* The provider of the decision steps: llm.GenerateContent with a required tool choice *)

NoText == [text |-> "", about |-> <<>>]
Text(t) == [text |-> t, about |-> <<>>]

\* the topics the provider may extract (strings as characters)
TopicCache == <<"c", "a", "c", "h", "e">>
TopicSql == <<"s", "q", "l">>
TopicBlockchain == <<"b", "l", "o", "c", "k", "c", "h", "a", "i", "n">>

\* FunctionCall.Arguments, a JSON text: wellFormed tells whether json.Unmarshal into
\* the Go parameter struct succeeds; the fields carry what it decodes (a field the
\* JSON lacks decodes to the zero value)
Arguments(wellFormed, message, isCorrect, feedback, questionCount, topics, reasoning, rankings) ==
    [wellFormed |-> wellFormed, message |-> message, is_correct |-> isCorrect,
     feedback |-> feedback, question_count |-> questionCount, topics |-> topics,
     reasoning |-> reasoning, rankings |-> rankings]

MalformedArgs == Arguments(FALSE, NoText, FALSE, NoText, 0, <<>>, NoText, <<>>)
MessageArgs == Arguments(TRUE, Text("Which cache policy evicts first?"), FALSE, NoText, 0, <<>>, NoText, <<>>)
EvaluateArgs(c) == Arguments(TRUE, NoText, c, Text("feedback"), 0, <<>>, NoText, <<>>)
FinalizeArgs(n, topics) == Arguments(TRUE, NoText, FALSE, NoText, n, topics, Text("reasoning"), <<>>)
RankArgs(rankings) == Arguments(TRUE, NoText, FALSE, NoText, 0, <<>>, NoText, rankings)

FunctionCall(name, arguments) == [name |-> name, arguments |-> arguments]

\* scores in tenths: 2 is 0.2, 9 is 0.9
Scores == {2, 9}

RankedIDs == {1, 2}

NoteRanking(id, score) == [note_id |-> id, score |-> score]

Rankings == SeqsUpTo({NoteRanking(id, sc) : id \in RankedIDs, sc \in Scores}, MaxRankings)

\* the tool calls a response may begin with, per protocol step
ConductCalls ==
    {FunctionCall(n, a) : n \in {"continue_quiz", "evaluate_answer", "rank_notes"},
                          a \in {MalformedArgs, MessageArgs, EvaluateArgs(TRUE), EvaluateArgs(FALSE)}}

ConfigureCalls ==
    {FunctionCall(n, a) : n \in {"continue_interview", "finalize_quiz_config", "continue_quiz"},
                          a \in {MalformedArgs, MessageArgs, FinalizeArgs(3, <<TopicCache>>),
                                 FinalizeArgs(3, <<TopicBlockchain, TopicSql>>),
                                 FinalizeArgs(3, <<TopicBlockchain>>), FinalizeArgs(0, <<>>)}}

RankCalls ==
    {FunctionCall(n, a) : n \in {"rank_notes", "continue_quiz"},
                          a \in {MalformedArgs} \cup {RankArgs(r) : r \in Rankings}}

\* the tool calls that may follow the first one
ExtraCalls(first) == {FunctionCall("continue_quiz", MessageArgs), first}

ToolCallLists(First) ==
    {<<>>} \cup UNION {{<<c>> \o t : t \in SeqsUpTo(ExtraCalls(c), MaxToolCalls - 1)} : c \in First}

LLMFailure == [err |-> TRUE, choices |-> <<>>]

LLMResponses(First) ==
    {LLMFailure, [err |-> FALSE, choices |-> <<>>]}
    \cup {[err |-> FALSE, choices |-> <<[toolCalls |-> l]>>] : l \in ToolCallLists(First)}

-----------------------------------------------------------------------------
(* Results of the decision steps: Go's pair of a response pointer and an error *)

\* a pointer is a sequence: <<>> is nil, <<v>> points to v
Nil == <<>>

NoResult ==
    [err |-> "", type |-> "", message |-> NoText, evaluation |-> Nil, config |-> Nil,
     rankedNotes |-> <<>>, missingIDs |-> <<>>, returned |-> FALSE, llmCalled |-> FALSE]

\* return nil, fmt.Errorf(...)
Fail(err, llmCalled) == [NoResult EXCEPT !.err = err, !.llmCalled = llmCalled]

\* return nil, fmt.Errorf("note IDs not found: %v", missingIDs)
FailMissing(missingIDs) == [NoResult EXCEPT !.err = "note IDs not found", !.missingIDs = missingIDs]

\* return &Response{Type, Message, Evaluation / Config}, nil
Decision(type, message, evaluation, config) ==
    [NoResult EXCEPT !.type = type, !.message = message, !.evaluation = evaluation,
                     !.config = config, !.returned = TRUE, !.llmCalled = TRUE]

\* return &NoteRankResponse{RankedNotes}, nil
Ranked(rankedNotes) == [NoResult EXCEPT !.rankedNotes = rankedNotes, !.returned = TRUE, !.llmCalled = TRUE]

\* len(resp.Choices) == 0 || len(resp.Choices[0].ToolCalls) == 0
NoToolCalls(response) == Len(response.choices) = 0 \/ Len(response.choices[1].toolCalls) = 0

\* toolCall := resp.Choices[0].ToolCalls[0]
FirstToolCall(response) == response.choices[1].toolCalls[1]

-----------------------------------------------------------------------------
(* quiz.Service.ConductQuizV2 and ConductQuiz *)

\* faulty variant: the evaluate_answer case forgets to attach the evaluation
ConductDecisionWithoutEvaluation(toolCall) ==
    IF toolCall.name = "continue_quiz"
    THEN IF ~toolCall.arguments.wellFormed
         THEN Fail("failed to parse continue_quiz arguments", TRUE)
         ELSE Decision("continue", toolCall.arguments.message, Nil, Nil)
    ELSE IF toolCall.name = "evaluate_answer"
    THEN IF ~toolCall.arguments.wellFormed
         THEN Fail("failed to parse evaluate_answer arguments", TRUE)
         ELSE Decision("evaluate", toolCall.arguments.feedback, Nil, Nil)
    ELSE Fail("unknown function call", TRUE)

\* faulty variant: the default case of the switch falls back to "continue"
ConductDecisionDefaultsToContinue(toolCall) ==
    IF toolCall.name = "evaluate_answer"
    THEN IF ~toolCall.arguments.wellFormed
         THEN Fail("failed to parse evaluate_answer arguments", TRUE)
         ELSE Decision("evaluate", toolCall.arguments.feedback,
                       <<[correct |-> toolCall.arguments.is_correct,
                          feedback |-> toolCall.arguments.feedback]>>, Nil)
    ELSE IF ~toolCall.arguments.wellFormed
         THEN Fail("failed to parse continue_quiz arguments", TRUE)
         ELSE Decision("continue", toolCall.arguments.message, Nil, Nil)

\* the switch on toolCall.FunctionCall.Name of the conduct steps
ConductDecision(toolCall) ==
    IF toolCall.name = "continue_quiz"
    THEN IF ~toolCall.arguments.wellFormed
         THEN Fail("failed to parse continue_quiz arguments", TRUE)
         ELSE Decision("continue", toolCall.arguments.message, Nil, Nil)
    ELSE IF toolCall.name = "evaluate_answer"
    THEN IF ~toolCall.arguments.wellFormed
         THEN Fail("failed to parse evaluate_answer arguments", TRUE)
         ELSE Decision("evaluate", toolCall.arguments.feedback,
                       <<[correct |-> toolCall.arguments.is_correct,
                          feedback |-> toolCall.arguments.feedback]>>, Nil)
    ELSE Fail("unknown function call", TRUE)

\* the quiz ids QuizStoreService.GetQuizByID finds
StoredQuizIDs == {quizzes[i].id : i \in 1..Len(quizzes)}

\* ConductQuizV2(quizID, messages) for a given outcome of GenerateContent
ConductQuizV2(quizID, msgs, response) ==
    IF quizID <= 0 THEN Fail("invalid quiz ID", FALSE)
    ELSE IF quizID \notin StoredQuizIDs THEN Fail("failed to fetch quiz", FALSE)
    ELSE IF response.err THEN Fail("failed to generate quiz v2 conduct response", TRUE)
    ELSE IF NoToolCalls(response) THEN Fail("no tool calls in LLM quiz v2 conduct response", TRUE)
    ELSE ConductDecision(FirstToolCall(response))

\* lo.Contains
LoContains(collection, element) == \E i \in 1..Len(collection) : collection[i] = element

\* targetNotes := lo.Filter(allNotes, note.ID in noteIDs)
TargetNotes(allNotes, noteIDs) == SelectSeq(allNotes, LAMBDA note : LoContains(noteIDs, note.id))

\* faulty variant: the check only fails when none of the requested notes was found
NoteCheckOnlyWhenNoneFound(allNotes, noteIDs) ==
    LET targetNotes == TargetNotes(allNotes, noteIDs)
    IN IF Len(targetNotes) = 0
       THEN LET foundIDs == [i \in 1..Len(targetNotes) |-> targetNotes[i].id]
                missingIDs == SelectSeq(noteIDs, LAMBDA noteID : ~LoContains(foundIDs, noteID))
            IN <<missingIDs>>
       ELSE <<>>

\* the note-existence check of RankNotes and ConductQuiz: <<>> when it passes,
\* else <<missingIDs>>
NoteCheck(allNotes, noteIDs) ==
    LET targetNotes == TargetNotes(allNotes, noteIDs)
    IN IF Len(targetNotes) # Len(noteIDs)
       THEN LET foundIDs == [i \in 1..Len(targetNotes) |-> targetNotes[i].id]
                missingIDs == SelectSeq(noteIDs, LAMBDA noteID : ~LoContains(foundIDs, noteID))
            IN <<missingIDs>>
       ELSE <<>>

\* ConductQuiz(noteIDs, topics, messages) for a given outcome of GenerateContent
ConductQuiz(allNotes, noteIDs, topics, msgs, response) ==
    IF Len(noteIDs) = 0 THEN Fail("at least one note ID is required", FALSE)
    ELSE IF Len(topics) = 0 THEN Fail("at least one topic is required", FALSE)
    ELSE IF NoteCheck(allNotes, noteIDs) # <<>> THEN FailMissing(NoteCheck(allNotes, noteIDs)[1])
    ELSE IF response.err THEN Fail("failed to generate quiz conduct response", TRUE)
    ELSE IF NoToolCalls(response) THEN Fail("no tool calls in LLM quiz conduct response", TRUE)
    ELSE ConductDecision(FirstToolCall(response))

-----------------------------------------------------------------------------
(* quiz.Service.ConfigureQuiz and ConfigureQuizV2 *)

\* faulty variant: finding no note for the topics is reported as a failure
FinalizeConfigFailsWithoutNotes(allNotes, params) ==
    LET matchingNotes == SearchNotesByContent(allNotes, params.topics)
    IN IF Len(matchingNotes) = 0
       THEN Fail("no notes found for topics", TRUE)
       ELSE Decision("configure", params.reasoning, Nil,
                     <<[note_ids |-> [i \in 1..Len(matchingNotes) |-> matchingNotes[i].id],
                        question_count |-> params.question_count,
                        topic |-> JoinStrings(params.topics, <<",", " ">>),
                        topics |-> <<>>]>>)

\* the finalize_quiz_config case of ConfigureQuiz: search the notes by topic
FinalizeConfig(allNotes, params) ==
    LET matchingNotes == SearchNotesByContent(allNotes, params.topics)
    IN IF Len(matchingNotes) = 0
       THEN Decision("continue",
                     [text |-> "I couldn't find any notes about %s. Could you specify different topics or be more specific about what you'd like to study?",
                      about |-> JoinStrings(params.topics, <<",", " ">>)],
                     Nil, Nil)
       ELSE Decision("configure", params.reasoning, Nil,
                     <<[note_ids |-> [i \in 1..Len(matchingNotes) |-> matchingNotes[i].id],
                        question_count |-> params.question_count,
                        topic |-> JoinStrings(params.topics, <<",", " ">>),
                        topics |-> <<>>]>>)

\* the finalize_quiz_config case of ConfigureQuizV2: the topics are kept as they are
FinalizeConfigV2(params) ==
    Decision("configure", params.reasoning, Nil,
             <<[note_ids |-> <<>>, question_count |-> params.question_count,
                topic |-> <<>>, topics |-> params.topics]>>)

\* the switch on toolCall.FunctionCall.Name of the configure steps
ConfigureDecision(toolCall, finalized) ==
    IF toolCall.name = "continue_interview"
    THEN IF ~toolCall.arguments.wellFormed
         THEN Fail("failed to parse continue_interview arguments", TRUE)
         ELSE Decision("continue", toolCall.arguments.message, Nil, Nil)
    ELSE IF toolCall.name = "finalize_quiz_config"
    THEN IF ~toolCall.arguments.wellFormed
         THEN Fail("failed to parse finalize_quiz_config arguments", TRUE)
         ELSE finalized
    ELSE Fail("unknown function call", TRUE)

\* ConfigureQuiz(messages) for a given outcome of GenerateContent
ConfigureQuiz(allNotes, msgs, response) ==
    IF response.err THEN Fail("failed to generate quiz configuration response", TRUE)
    ELSE IF NoToolCalls(response) THEN Fail("no tool calls in LLM response", TRUE)
    ELSE ConfigureDecision(FirstToolCall(response),
                           FinalizeConfig(allNotes, FirstToolCall(response).arguments))

\* ConfigureQuizV2(messages) for a given outcome of GenerateContent
ConfigureQuizV2(msgs, response) ==
    IF response.err THEN Fail("failed to generate quiz v2 configuration response", TRUE)
    ELSE IF NoToolCalls(response) THEN Fail("no tool calls in LLM response", TRUE)
    ELSE ConfigureDecision(FirstToolCall(response),
                           FinalizeConfigV2(FirstToolCall(response).arguments))

-----------------------------------------------------------------------------
(* quiz.Service.RankNotes *)

RECURSIVE InsertRanked(_, _)
\* insert x into the sorted list before the first entry with a smaller score
InsertRanked(sorted, x) ==
    IF sorted = <<>> THEN <<x>>
    ELSE IF Head(sorted).score < x.score THEN <<x>> \o sorted
    ELSE <<Head(sorted)>> \o InsertRanked(Tail(sorted), x)

\* faulty variant: the list is returned in the provider's order
SortByScoreDescKeepsOrder(rankedNotes) == rankedNotes

RECURSIVE SortByScoreDesc(_)
\* slices.SortFunc with the descending-score comparison; a slice of at most 12
\* entries is sorted by insertion
SortByScoreDesc(rankedNotes) ==
    IF rankedNotes = <<>> THEN <<>>
    ELSE InsertRanked(SortByScoreDesc(SubSeq(rankedNotes, 1, Len(rankedNotes) - 1)), Last(rankedNotes))

\* the part of RankNotes after the tool-call check: parse, map, sort
RankedResult(toolCall) ==
    IF toolCall.name # "rank_notes" THEN Fail("unexpected function call", TRUE)
    ELSE IF ~toolCall.arguments.wellFormed THEN Fail("failed to parse ranking arguments", TRUE)
    ELSE LET rankings == toolCall.arguments.rankings
             rankedNotes == [i \in 1..Len(rankings) |->
                                [note_id |-> rankings[i].note_id, score |-> rankings[i].score]]
         IN Ranked(SortByScoreDesc(rankedNotes))

\* faulty variant: the topics are validated only after the provider has answered
RankNotesValidatesTopicsLate(allNotes, noteIDs, topics, response) ==
    IF Len(noteIDs) = 0 THEN Fail("at least one note ID is required", FALSE)
    ELSE IF NoteCheck(allNotes, noteIDs) # <<>> THEN FailMissing(NoteCheck(allNotes, noteIDs)[1])
    ELSE IF response.err THEN Fail("failed to generate ranking response", TRUE)
    ELSE IF Len(topics) = 0 THEN Fail("at least one topic is required", TRUE)
    ELSE IF NoToolCalls(response) THEN Fail("no tool calls in LLM ranking response", TRUE)
    ELSE RankedResult(FirstToolCall(response))

\* RankNotes(noteIDs, topics) for a given outcome of GenerateContent
RankNotes(allNotes, noteIDs, topics, response) ==
    IF Len(noteIDs) = 0 THEN Fail("at least one note ID is required", FALSE)
    ELSE IF Len(topics) = 0 THEN Fail("at least one topic is required", FALSE)
    ELSE IF NoteCheck(allNotes, noteIDs) # <<>> THEN FailMissing(NoteCheck(allNotes, noteIDs)[1])
    ELSE IF response.err THEN Fail("failed to generate ranking response", TRUE)
    ELSE IF NoToolCalls(response) THEN Fail("no tool calls in LLM ranking response", TRUE)
    ELSE RankedResult(FirstToolCall(response))

-----------------------------------------------------------------------------
(* The decision steps as operations: a step is called, returns, and is forgotten *)

Note(id, content) == [id |-> id, content |-> content]

Note1 == Note(1, <<"R", "e", "d", "i", "s", " ", "c", "a", "c", "h", "e", ".">>)
Note2 == Note(2, <<"S", "Q", "L", " ", "i", "n", "d", "e", "x">>)
Note3 == Note(3, <<"t", "c", "p">>)

\* the note stores the model starts from
NoteStores == {<<>>, <<Note1, Note2>>, <<Note1, Note2, Note3>>}

NoteIDs == {1, 2, 3}

QuizIDs == {0, 1, 2}

\* the message histories a conduct or configure step is called with
Histories ==
    {<<>>,
     <<[role |-> "assistant", content |-> "Which cache policy evicts first?"],
       [role |-> "user", content |-> "LRU"]>>}

TopicLists == {<<>>, <<TopicCache>>}

QuizCall(step, noteIDs, topics, msgs, quizID, response, result) ==
    [step |-> step, noteIDs |-> noteIDs, topics |-> topics, messages |-> msgs,
     quizID |-> quizID, response |-> response, result |-> result]

NoQuiz == QuizCall("none", <<>>, <<>>, <<>>, 0, LLMFailure, NoResult)

CallConductQuizV2 ==
    /\ quiz = NoQuiz
    /\ \E quizID \in QuizIDs, msgs \in Histories, response \in LLMResponses(ConductCalls) :
        quiz' = QuizCall("conductV2", <<>>, <<>>, msgs, quizID, response,
                         ConductQuizV2(quizID, msgs, response))
    /\ UNCHANGED <<agentVars, notes, search, tool, quizV2Vars>>

CallConductQuiz ==
    /\ quiz = NoQuiz
    /\ \E noteIDs \in SeqsUpTo(NoteIDs, MaxIDs), topics \in TopicLists, msgs \in Histories,
          response \in LLMResponses(ConductCalls) :
        quiz' = QuizCall("conduct", noteIDs, topics, msgs, 0, response,
                         ConductQuiz(notes, noteIDs, topics, msgs, response))
    /\ UNCHANGED <<agentVars, notes, search, tool, quizV2Vars>>

CallConfigureQuiz ==
    /\ quiz = NoQuiz
    /\ \E msgs \in Histories, response \in LLMResponses(ConfigureCalls) :
        quiz' = QuizCall("configure", <<>>, <<>>, msgs, 0, response,
                         ConfigureQuiz(notes, msgs, response))
    /\ UNCHANGED <<agentVars, notes, search, tool, quizV2Vars>>

CallConfigureQuizV2 ==
    /\ quiz = NoQuiz
    /\ \E msgs \in Histories, response \in LLMResponses(ConfigureCalls) :
        quiz' = QuizCall("configureV2", <<>>, <<>>, msgs, 0, response,
                         ConfigureQuizV2(msgs, response))
    /\ UNCHANGED <<agentVars, notes, search, tool, quizV2Vars>>

CallRankNotes ==
    /\ quiz = NoQuiz
    /\ \E noteIDs \in SeqsUpTo(NoteIDs, MaxIDs), topics \in TopicLists,
          response \in LLMResponses(RankCalls) :
        quiz' = QuizCall("rank", noteIDs, topics, <<>>, 0, response,
                         RankNotes(notes, noteIDs, topics, response))
    /\ UNCHANGED <<agentVars, notes, search, tool, quizV2Vars>>

\* the HTTP handler has written the step's response
ReturnQuiz ==
    /\ quiz # NoQuiz
    /\ quiz' = NoQuiz
    /\ UNCHANGED <<agentVars, notes, search, tool, quizV2Vars>>

-----------------------------------------------------------------------------
(* NoteService.SearchNotesByContent as an operation *)

Note4 == Note(4, <<"A", " ", "d", "a", "t", "a", "b", "a", "s", "e", ":", " ",
                   "r", "e", "p", "l", "i", "c", "a", "t", "i", "o", "n", ".">>)
Note5 == Note(5, <<"(", "R", "e", "p", "l", "i", "c", "a", "t", "i", "o", "n", "s", ")">>)

\* the note stores the search is run on
SearchStores == {<<>>, <<Note1, Note2, Note3>>, <<Note4>>, <<Note1, Note4, Note5>>, <<Note3, Note5>>}

\* the search terms a caller passes
SearchTerms ==
    {<<"d", "a", "t", "a", "b", "s", "e">>,
     <<"d", "a", "t", "b", "s", "e">>,
     <<"d", "a", "t", "b", "s">>,
     <<"c", "a", "c", "h", "y">>,
     <<"c", "c", "h", "e">>,
     <<"c", "c", "e">>,
     <<"r", "p", "l", "i", "c", "t", "o", "n">>,
     <<"S", "Q", "L">>,
     <<"q", "l">>,
     <<"t", "c", "p">>,
     <<"d", "a", "t">>,
     TopicBlockchain}

NoSearch == [called |-> FALSE, terms |-> <<>>, result |-> <<>>]

CallSearchNotesByContent ==
    /\ search = NoSearch
    /\ \E searchTerms \in SeqsUpTo(SearchTerms, MaxTerms) :
        search' = [called |-> TRUE, terms |-> searchTerms,
                   result |-> SearchNotesByContent(notes, searchTerms)]
    /\ UNCHANGED <<agentVars, notes, quiz, tool, quizV2Vars>>

\* the caller has taken the matching notes
ReturnSearch ==
    /\ search # NoSearch
    /\ search' = NoSearch
    /\ UNCHANGED <<agentVars, notes, quiz, tool, quizV2Vars>>

-----------------------------------------------------------------------------
(* The read_note tool of the agent *)

\* the most lines a stored note has
MaxLines == 3

RECURSIVE SplitFrom(_, _)
\* strings.Split(s, "\n"): cur is the line being read, rest the text still to read
SplitFrom(cur, rest) ==
    IF rest = <<>> THEN <<cur>>
    ELSE IF Head(rest) = "\n"
         THEN <<cur>> \o SplitFrom(<<>>, Tail(rest))
         ELSE SplitFrom(Append(cur, Head(rest)), Tail(rest))

SplitLines(content) == SplitFrom(<<>>, content)

\* NoteService.GetNoteByID: <<note>> or <<>> with its error
GetNoteByID(allNotes, id) ==
    IF id <= 0 THEN [err |-> "invalid note ID", note |-> Nil]
    ELSE IF \E i \in 1..Len(allNotes) : allNotes[i].id = id
         THEN [err |-> "", note |-> <<allNotes[CHOOSE i \in 1..Len(allNotes) : allNotes[i].id = id]>>]
         ELSE [err |-> "note not found", note |-> Nil]

\* ReadNoteToolInput; wellFormed is whether json.Unmarshal accepts the input
ReadNoteToolInput(wellFormed, note_id, line_number_start, line_number_end) ==
    [wellFormed |-> wellFormed, note_id |-> note_id,
     line_number_start |-> line_number_start, line_number_end |-> line_number_end]

\* ReadNoteResult, with the error of the call ("" when it returned a result)
ReadNoteResult(err, note_id, content, line_start, line_end, total_lines) ==
    [err |-> err, note_id |-> note_id, content |-> content,
     line_start |-> line_start, line_end |-> line_end, total_lines |-> total_lines]

ReadNoteError(err) == ReadNoteResult(err, 0, <<>>, 0, 0, 0)

\* lines[start-1 : end]
SliceLines(lines, start, end) == [i \in 1..(end - start + 1) |-> lines[start - 1 + i]]

\* faulty variant: a missing end line defaults to the start line
ReadNoteToolCallEndDefaultsToStart(allNotes, params) ==
    IF ~params.wellFormed THEN ReadNoteError("failed to parse read note tool input")
    ELSE LET got == GetNoteByID(allNotes, params.note_id)
         IN IF got.err # "" THEN ReadNoteError("failed to get note")
            ELSE LET lines == SplitLines(got.note[1].content)
                     totalLines == Len(lines)
                     start == IF params.line_number_start <= 0 THEN 1 ELSE params.line_number_start
                     end == IF params.line_number_end <= 0 THEN start
                            ELSE IF params.line_number_end > totalLines THEN totalLines
                            ELSE params.line_number_end
                 IN IF start > totalLines THEN ReadNoteError("start line exceeds total lines")
                    ELSE IF start > end
                         THEN ReadNoteError("start line cannot be greater than end line")
                         ELSE ReadNoteResult("", params.note_id,
                                             JoinStrings(SliceLines(lines, start, end), <<"\n">>),
                                             start, end, totalLines)

\* ReadNoteTool.Call
ReadNoteToolCall(allNotes, params) ==
    IF ~params.wellFormed THEN ReadNoteError("failed to parse read note tool input")
    ELSE LET got == GetNoteByID(allNotes, params.note_id)
         IN IF got.err # "" THEN ReadNoteError("failed to get note")
            ELSE LET lines == SplitLines(got.note[1].content)
                     totalLines == Len(lines)
                     start == IF params.line_number_start <= 0 THEN 1 ELSE params.line_number_start
                     end == IF params.line_number_end <= 0 \/ params.line_number_end > totalLines
                            THEN totalLines
                            ELSE params.line_number_end
                 IN IF start > totalLines THEN ReadNoteError("start line exceeds total lines")
                    ELSE IF start > end
                         THEN ReadNoteError("start line cannot be greater than end line")
                         ELSE ReadNoteResult("", params.note_id,
                                             JoinStrings(SliceLines(lines, start, end), <<"\n">>),
                                             start, end, totalLines)

\* notes of one, two and three lines, and a note without content
Note6 == Note(6, <<"L", "R", "U", "\n", "L", "F", "U">>)
Note7 == Note(7, <<"a", "\n", "\n", "b">>)
Note8 == Note(8, <<>>)
Note9 == Note(9, <<"T", "T", "L", "\n">>)

\* the note stores the tool reads from
ToolStores == {<<Note3, Note6, Note7>>, <<Note8, Note9>>}

\* the note ids and line numbers the provider passes
ToolNoteIDs == {0, 3, 6, 7, 8, 9}

LineNumbers == (0 - 1)..(MaxLines + 1)

NoTool == [name |-> "", input |-> ReadNoteToolInput(FALSE, 0, 0, 0), result |-> ReadNoteError("")]

CallReadNote ==
    /\ tool = NoTool
    /\ \E wellFormed \in BOOLEAN, note_id \in ToolNoteIDs,
          line_number_start \in LineNumbers, line_number_end \in LineNumbers :
        LET params == ReadNoteToolInput(wellFormed, note_id, line_number_start, line_number_end)
        IN tool' = [name |-> "read_note", input |-> params,
                    result |-> ReadNoteToolCall(notes, params)]
    /\ UNCHANGED <<agentVars, notes, quiz, search, quizV2Vars>>

\* the tool result has been turned into a tool message
ReturnTool ==
    /\ tool # NoTool
    /\ tool' = NoTool
    /\ UNCHANGED <<agentVars, notes, quiz, search, quizV2Vars>>

-----------------------------------------------------------------------------
(* QuizStoreService: creating and updating quiz records *)

\* the most quiz records the store holds
MaxQuizzes == 1

\* the longest asked-questions list
MaxAsked == 2

\* validateCreateRequest: question count cannot exceed 5
MaxQuestionCount == 5

RECURSIVE TrimSpaceLeft(_)
TrimSpaceLeft(str) == IF str # <<>> /\ IsSpace(Head(str)) THEN TrimSpaceLeft(Tail(str)) ELSE str

RECURSIVE TrimSpaceRight(_)
TrimSpaceRight(str) ==
    IF str # <<>> /\ IsSpace(Last(str)) THEN TrimSpaceRight(SubSeq(str, 1, Len(str) - 1)) ELSE str

\* strings.TrimSpace
TrimSpace(str) == TrimSpaceRight(TrimSpaceLeft(str))

\* models.QuizV2Configuration
QuizV2Configuration(question_count, topics) ==
    [question_count |-> question_count, topics |-> topics]

\* models.CreateQuizRequest
CreateQuizRequest(config) == [config |-> config]

\* models.Quiz (LLMContext is not sent to clients and is left out)
Quiz(id, config, asked_questions) ==
    [id |-> id, config |-> config, asked_questions |-> asked_questions]

RECURSIVE TrimTopicsFrom(_, _)
\* the loop of validateCreateRequest from topic i on: the error of the first blank
\* topic, else "", and the topics with those before the blank one trimmed
TrimTopicsFrom(topics, i) ==
    IF i > Len(topics) THEN [err |-> "", topics |-> topics]
    ELSE LET topic == TrimSpace(topics[i])
         IN IF topic = <<>> THEN [err |-> "topic cannot be empty", topics |-> topics]
            ELSE TrimTopicsFrom([topics EXCEPT ![i] = topic], i + 1)

\* faulty variant: the trimmed topic is not written back to the request
validateCreateRequestKeepsTopics(req) ==
    IF Len(req.config.topics) = 0
    THEN [err |-> "at least one topic is required", topics |-> req.config.topics]
    ELSE IF req.config.question_count <= 0
    THEN [err |-> "question count must be greater than 0", topics |-> req.config.topics]
    ELSE IF req.config.question_count > MaxQuestionCount
    THEN [err |-> "question count cannot exceed 5", topics |-> req.config.topics]
    ELSE [err |-> TrimTopicsFrom(req.config.topics, 1).err, topics |-> req.config.topics]

\* QuizStoreService.validateCreateRequest: its error and the request's topics as
\* it leaves them
validateCreateRequest(req) ==
    IF Len(req.config.topics) = 0
    THEN [err |-> "at least one topic is required", topics |-> req.config.topics]
    ELSE IF req.config.question_count <= 0
    THEN [err |-> "question count must be greater than 0", topics |-> req.config.topics]
    ELSE IF req.config.question_count > MaxQuestionCount
    THEN [err |-> "question count cannot exceed 5", topics |-> req.config.topics]
    ELSE TrimTopicsFrom(req.config.topics, 1)

\* the outcome of a QuizStoreService call: its error, the quiz it returns, whether
\* the vector index was queried, and the store it leaves
StoreResult(err, created, queried, stored) ==
    [err |-> err, quiz |-> created, queried |-> queried, quizzes |-> stored]

\* QuizStoreService.CreateQuiz for given outcomes of QueryTopicChunks and of the
\* repository's INSERT
CreateQuiz(stored, req, chunksFail, insertFails) ==
    LET valid == validateCreateRequest(req)
    IN IF valid.err # "" THEN StoreResult(valid.err, Nil, FALSE, stored)
       ELSE IF chunksFail THEN StoreResult("failed to generate LLM context", Nil, TRUE, stored)
       ELSE IF insertFails THEN StoreResult("failed to create quiz", Nil, TRUE, stored)
       ELSE LET created == Quiz(Len(stored) + 1,
                                QuizV2Configuration(req.config.question_count, valid.topics),
                                <<>>)
            IN StoreResult("", <<created>>, TRUE, Append(stored, created))

\* models.UpdateQuizRequest
UpdateQuizRequest(asked_questions) == [asked_questions |-> asked_questions]

\* the repository's UpdateQuiz: the asked-questions list of record id is replaced
\* by the list of the request
RepoUpdateQuiz(stored, id, req) ==
    IF id > Len(stored) THEN StoreResult("quiz not found", Nil, FALSE, stored)
    ELSE StoreResult("", Nil, FALSE,
                     [stored EXCEPT ![id].asked_questions = req.asked_questions])

\* faulty variant: an update is refused unless it extends the stored list
UpdateQuizIfExtends(stored, id, req) ==
    IF id <= 0 THEN StoreResult("invalid quiz ID", Nil, FALSE, stored)
    ELSE IF id <= Len(stored) /\ ~IsPrefix(stored[id].asked_questions, req.asked_questions)
    THEN StoreResult("conflict", Nil, FALSE, stored)
    ELSE RepoUpdateQuiz(stored, id, req)

\* QuizStoreService.UpdateQuiz
UpdateQuiz(stored, id, req) ==
    IF id <= 0 THEN StoreResult("invalid quiz ID", Nil, FALSE, stored)
    ELSE RepoUpdateQuiz(stored, id, req)

\* the topics a client sends, as characters: plain, padded, blank and empty
TopicPadded == <<" ", "s", "q", "l", " ">>
TopicBlank == <<" ", "\t">>
TopicEmpty == <<>>

\* the topic lists a client sends
CreateTopics ==
    {<<>>, <<TopicCache>>, <<TopicEmpty>>, <<TopicPadded, TopicCache>>,
     <<TopicCache, TopicBlank>>, <<TopicBlank, TopicPadded>>}

\* the question counts a client sends: around the limits of validateCreateRequest
QuestionCounts == {0 - 1, 0, 1, MaxQuestionCount, MaxQuestionCount + 1}

\* the questions a conduct step asks
Questions == {Text("Which cache policy evicts first?"), Text("What is a covering index?")}

StoreCall(op, id, req, result) == [op |-> op, id |-> id, req |-> req, result |-> result]

NoStore == StoreCall("none", 0, <<>>, StoreResult("", Nil, FALSE, <<>>))

CallCreateQuiz ==
    /\ store = NoStore
    /\ Len(quizzes) < MaxQuizzes
    /\ \E question_count \in QuestionCounts, topics \in CreateTopics,
          chunksFail \in BOOLEAN, insertFails \in BOOLEAN :
        LET req == CreateQuizRequest(QuizV2Configuration(question_count, topics))
            result == CreateQuiz(quizzes, req, chunksFail, insertFails)
        IN /\ store' = StoreCall("create", 0, req, result)
           /\ quizzes' = result.quizzes
    /\ UNCHANGED <<agentVars, notes, quiz, search, tool, ui, calls>>

CallUpdateQuiz ==
    /\ store = NoStore
    /\ \E id \in 0..MaxQuizzes, asked_questions \in SeqsUpTo(Questions, MaxAsked) :
        LET req == UpdateQuizRequest(asked_questions)
            result == UpdateQuiz(quizzes, id, req)
        IN /\ store' = StoreCall("update", id, req, result)
           /\ quizzes' = result.quizzes
    /\ UNCHANGED <<agentVars, notes, quiz, search, tool, ui, calls>>

\* the HTTP handler has written the response
ReturnStore ==
    /\ store # NoStore
    /\ store' = NoStore
    /\ UNCHANGED <<agentVars, notes, quiz, search, tool, quizzes, ui, calls>>

\* quizState as useState initialises it and resetQuiz restores it, with loading
InitialQuizState ==
    [step |-> "configure", configuration |-> Nil, createdQuiz |-> Nil,
     currentQuestionIndex |-> 0, quizResults |-> <<>>, currentQuizMessages |-> <<>>,
     loading |-> FALSE]

-----------------------------------------------------------------------------
(* QuizV2: the quiz page, its requests and its timers *)

\* the most requests and timers the page has pending at once
MaxCalls == 2

\* the longest message list of one question
MaxQuizMsgs == 3

\* the configurations the configure step hands to createQuiz
UIConfigs ==
    {QuizV2Configuration(1, <<TopicCache>>), QuizV2Configuration(2, <<TopicCache>>),
     QuizV2Configuration(0, <<>>)}

\* the answers of quizV2Api.configure: a failure, a question back, a configuration
UIConfigureResponses ==
    {[err |-> TRUE, type |-> "", config |-> Nil], [err |-> FALSE, type |-> "continue", config |-> Nil]}
    \cup {[err |-> FALSE, type |-> "configure", config |-> <<c>>] : c \in UIConfigs}

QuestionArgs(q) == Arguments(TRUE, q, FALSE, NoText, 0, <<>>, NoText, <<>>)

\* what the provider answers to a conduct step of the page
UIConductResponses ==
    {LLMFailure}
    \cup {[err |-> FALSE, choices |-> <<[toolCalls |-> <<FunctionCall("continue_quiz", QuestionArgs(q))>>]>>] :
            q \in Questions}
    \cup {[err |-> FALSE, choices |-> <<[toolCalls |-> <<FunctionCall("evaluate_answer", EvaluateArgs(TRUE))>>]>>]}

\* what a handler reads of the quizState of the render it was created in
Closure(state) ==
    [configuration |-> state.configuration, createdQuiz |-> state.createdQuiz,
     currentQuestionIndex |-> state.currentQuestionIndex]

\* a pending request or timer: quizId is the argument of autoStartNextQuestion (0
\* for none) or the quiz_id of the conduct request, snap the closure of the
\* handler that started it, msgs the messages or list sent
Call(kind, quizId, snap, msgs) == [kind |-> kind, quizId |-> quizId, snap |-> snap, messages |-> msgs]

\* the pending calls without c, with c replaced by d, and with one more
Remove(c) == calls (-) SetToBag({c})

Replace(c, d) == (calls (-) SetToBag({c})) (+) SetToBag({d})

Start(c) == calls (+) SetToBag({c})

\* quizState.createdQuiz?.id, 0 when there is none
CreatedQuizID(state) == IF state.createdQuiz = Nil THEN 0 ELSE state.createdQuiz[1].id

\* quizState.createdQuiz?.asked_questions || []
AskedQuestions(state) == IF state.createdQuiz = Nil THEN <<>> ELSE state.createdQuiz[1].asked_questions

\* startConfiguration up to the await of quizV2Api.configure
StartConfiguration ==
    /\ ui.step = "configure"
    /\ ~ui.loading
    /\ BagCardinality(calls) < MaxCalls
    /\ Len(quizzes) < MaxQuizzes
    /\ ui' = [ui EXCEPT !.loading = TRUE]
    /\ calls' = Start(Call("configure", 0, Closure(ui), <<>>))
    /\ UNCHANGED <<agentVars, notes, quiz, search, tool, quizzes, store>>

\* startConfiguration after the await, up to the await of quizV2Api.createQuiz
ConfigureReturns ==
    \E c \in BagToSet(calls), response \in UIConfigureResponses :
        /\ c.kind = "configure"
        /\ IF ~response.err /\ response.type = "configure"
           THEN /\ ui' = [ui EXCEPT !.configuration = response.config, !.loading = TRUE]
                /\ calls' = Replace(c, Call("create", 0, c.snap, response.config))
           ELSE /\ ui' = [ui EXCEPT !.loading = FALSE]
                /\ calls' = Remove(c)
        /\ UNCHANGED <<agentVars, notes, quiz, search, tool, quizzes, store>>

\* POST /quizzes is served, and createQuiz runs on after its await
CreateReturns ==
    \E c \in BagToSet(calls), chunksFail \in BOOLEAN, insertFails \in BOOLEAN :
        /\ c.kind = "create"
        /\ LET req == CreateQuizRequest(c.messages[1])
               result == CreateQuiz(quizzes, req, chunksFail, insertFails)
           IN /\ store' = StoreCall("create", 0, req, result)
              /\ quizzes' = result.quizzes
              /\ IF result.err = ""
                 THEN /\ ui' = [ui EXCEPT !.createdQuiz = result.quiz, !.step = "quiz",
                                          !.currentQuestionIndex = 0,
                                          !.currentQuizMessages = <<>>, !.loading = FALSE]
                      /\ calls' = Replace(c, Call("timer", result.quiz[1].id, c.snap, <<>>))
                 ELSE /\ ui' = [ui EXCEPT !.loading = FALSE]
                      /\ calls' = Remove(c)
        /\ UNCHANGED <<agentVars, notes, quiz, search, tool>>

\* the 500 ms timer fires: autoStartNextQuestion up to the await of conductQuiz
AutoStartNextQuestion ==
    \E c \in BagToSet(calls) :
        /\ c.kind = "timer"
        /\ LET currentQuizId == IF c.quizId # 0 THEN c.quizId
                                ELSE CreatedQuizID(c.snap)
           IN IF currentQuizId = 0
              THEN /\ calls' = Remove(c)
                   /\ UNCHANGED ui
              ELSE /\ ui' = [ui EXCEPT !.loading = TRUE]
                   /\ calls' = Replace(c, Call("autoConduct", currentQuizId, c.snap, <<>>))
        /\ UNCHANGED <<agentVars, notes, quiz, search, tool, quizzes, store>>

\* the conduct request of autoStartNextQuestion is served, and the function runs
\* on up to the await of updateQuiz
AutoConductReturns ==
    \E c \in BagToSet(calls), response \in UIConductResponses :
        /\ c.kind = "autoConduct"
        /\ LET result == ConductQuizV2(c.quizId, <<>>, response)
               aiResponse == [role |-> "assistant", content |-> result.message]
           IN IF result.err # ""
              THEN /\ ui' = [ui EXCEPT !.loading = FALSE]
                   /\ calls' = Remove(c)
              ELSE /\ ui' = [ui EXCEPT !.currentQuizMessages = <<aiResponse>>]
                   /\ calls' = Replace(c, Call("autoUpdate", c.quizId, c.snap,
                                       Append(AskedQuestions(c.snap), result.message)))
        /\ UNCHANGED <<agentVars, notes, quiz, search, tool, quizzes, store>>

\* PUT /quizzes/{id} is served, and autoStartNextQuestion runs to its end
AutoUpdateReturns ==
    \E c \in BagToSet(calls) :
        /\ c.kind = "autoUpdate"
        /\ LET req == UpdateQuizRequest(c.messages)
               result == UpdateQuiz(quizzes, c.quizId, req)
               question == Last(c.messages)
           IN /\ store' = StoreCall("update", c.quizId, req, result)
              /\ quizzes' = result.quizzes
              /\ IF result.err = ""
                 THEN ui' = [ui EXCEPT
                               !.createdQuiz =
                                   IF ui.createdQuiz = Nil
                                   THEN <<Quiz(0, QuizV2Configuration(0, <<>>), <<question>>)>>
                                   ELSE <<[ui.createdQuiz[1] EXCEPT
                                             !.asked_questions = Append(@, question)]>>,
                               !.loading = FALSE]
                 ELSE ui' = [ui EXCEPT !.loading = FALSE]
              /\ calls' = Remove(c)
        /\ UNCHANGED <<agentVars, notes, quiz, search, tool>>

\* the answer form is submitted: sendQuizMessage up to the await of conductQuiz
SendQuizMessage ==
    /\ ui.step = "quiz"
    /\ ~ui.loading
    /\ CreatedQuizID(ui) # 0
    /\ BagCardinality(calls) < MaxCalls
    /\ Len(ui.currentQuizMessages) + 2 <= MaxQuizMsgs
    /\ LET userMessage == [role |-> "user", content |-> Text("LRU")]
           updatedMessages == Append(ui.currentQuizMessages, userMessage)
       IN /\ ui' = [ui EXCEPT !.currentQuizMessages = updatedMessages, !.loading = TRUE]
          /\ calls' = Start(Call("sendConduct", CreatedQuizID(ui), Closure(ui), updatedMessages))
    /\ UNCHANGED <<agentVars, notes, quiz, search, tool, quizzes, store>>

\* the conduct request of sendQuizMessage is served, and the function runs to its end
SendConductReturns ==
    \E c \in BagToSet(calls), response \in UIConductResponses :
        /\ c.kind = "sendConduct"
        /\ LET result == ConductQuizV2(c.quizId, c.messages, response)
               aiResponse == [role |-> "assistant", content |-> result.message]
               finalMessages == Append(c.messages, aiResponse)
               snap == c.snap
               \* the result keeps finalMessages too, which nothing reads
               quizResult == [questionNumber |-> snap.currentQuestionIndex + 1,
                              evaluation |-> result.evaluation]
           IN IF result.err # ""
              THEN /\ ui' = [ui EXCEPT !.loading = FALSE]
                   /\ calls' = Remove(c)
              ELSE IF result.type # "evaluate"
              THEN /\ ui' = [ui EXCEPT !.currentQuizMessages = finalMessages, !.loading = FALSE]
                   /\ calls' = Remove(c)
              ELSE IF snap.configuration = Nil
              THEN /\ ui' = [ui EXCEPT !.quizResults = Append(@, quizResult),
                                       !.currentQuestionIndex = @ + 1,
                                       !.currentQuizMessages = <<>>, !.loading = FALSE]
                   /\ calls' = Remove(c)
              ELSE IF snap.currentQuestionIndex + 1 >= snap.configuration[1].question_count
              THEN /\ ui' = [ui EXCEPT !.quizResults = Append(@, quizResult),
                                       !.currentQuestionIndex = @ + 1,
                                       !.currentQuizMessages = <<>>, !.step = "complete",
                                       !.loading = FALSE]
                   /\ calls' = Remove(c)
              ELSE /\ ui' = [ui EXCEPT !.quizResults = Append(@, quizResult),
                                       !.currentQuestionIndex = @ + 1,
                                       !.currentQuizMessages = <<>>, !.loading = FALSE]
                   /\ calls' = Replace(c, Call("timer", 0, snap, <<>>))
        /\ UNCHANGED <<agentVars, notes, quiz, search, tool, quizzes, store>>

\* resetQuiz, offered on the complete step
ResetQuiz ==
    /\ ui.step = "complete"
    /\ ui' = [InitialQuizState EXCEPT !.loading = ui.loading]
    /\ UNCHANGED <<agentVars, notes, quiz, search, tool, quizzes, store, calls>>

-----------------------------------------------------------------------------
(* AgentChat.js *)

UserTexts == {"", " ", " hi "}

\* String.prototype.trim on the texts the model types
Trim(s) == IF s = " hi " THEN "hi" ELSE IF s = " " THEN "" ELSE s

\* faulty variant: the loop also continues after a plain assistant message
ShouldContinueUnlessUser(newMessages) == Len(newMessages) > 0 /\ Last(newMessages).role # "user"

\* faulty variant: the loop gives up after two provider rounds
ShouldContinueUpToTwoRounds(newMessages) ==
    Len(newMessages) > 0 /\ Last(newMessages).role = "tool" /\ providerCalls < 2

\* lastMessage?.role === 'tool'
ShouldContinue(newMessages) == Len(newMessages) > 0 /\ Last(newMessages).role = "tool"

\* continueConversation(currentMessages) up to its await: the request is sent
CallContinueConversation(currentMessages) ==
    /\ cstate' = "inflight"
    /\ reqMessages' = currentMessages
    /\ resp' = NoResponse

\* sendMessage: append the user message, set loading, start the loop
SendMessage ==
    /\ cstate = "idle"
    /\ Len(messages) + 2 <= MaxMsgs
    /\ \E text \in UserTexts :
        /\ ~(Trim(text) = "" \/ loading)
        /\ LET updatedMessages == Append(messages, AgentMessage("user", Trim(text), <<>>, <<>>))
           IN /\ messages' = updatedMessages
              /\ CallContinueConversation(updatedMessages)
    /\ loading' = TRUE
    /\ toasts' = 0
    /\ providerCalls' = 0
    /\ UNCHANGED <<provider, toolExecs, notes, quiz, search, tool, quizV2Vars>>

\* the server handles POST /agent/chat
ServeChat ==
    /\ cstate = "inflight"
    /\ resp.status = "none"
    /\ \E response \in ProviderResponses :
        /\ Admitted(reqMessages, response)
        /\ LET r == HandlerProcessMessage(reqMessages, response)
           IN /\ resp' = [status |-> r.status, messages |-> r.messages]
              /\ toolExecs' = r.executed
              /\ provider' = response
              /\ providerCalls' = providerCalls + r.calls
    /\ UNCHANGED <<messages, loading, cstate, reqMessages, toasts, notes, quiz, search, tool, quizV2Vars>>

\* continueConversation after its await, the response being a success
HandleResponse ==
    /\ cstate = "inflight"
    /\ resp.status = "ok"
    /\ LET newMessages == resp.messages
       IN /\ messages' = newMessages
          /\ IF ShouldContinue(newMessages)
             THEN /\ cstate' = "timer"
                  /\ reqMessages' = newMessages
                  /\ UNCHANGED loading
             ELSE /\ cstate' = "idle"
                  /\ loading' = FALSE
                  /\ reqMessages' = <<>>
    /\ resp' = NoResponse
    /\ UNCHANGED <<provider, providerCalls, toolExecs, toasts, notes, quiz, search, tool, quizV2Vars>>

\* faulty variant: the catch block sends the same request again
HandleErrorRetries ==
    /\ cstate = "inflight"
    /\ resp.status = "err"
    /\ toasts' = toasts + 1
    /\ CallContinueConversation(reqMessages)
    /\ UNCHANGED <<messages, loading, provider, providerCalls, toolExecs, notes, quiz, search, tool, quizV2Vars>>

\* continueConversation's catch: toast, loading off, nothing rescheduled
HandleError ==
    /\ cstate = "inflight"
    /\ resp.status = "err"
    /\ toasts' = toasts + 1
    /\ loading' = FALSE
    /\ cstate' = "idle"
    /\ reqMessages' = <<>>
    /\ resp' = NoResponse
    /\ UNCHANGED <<messages, provider, providerCalls, toolExecs, notes, quiz, search, tool, quizV2Vars>>

\* the 800 ms timer fires: continueConversation(newMessages)
TimerFires ==
    /\ cstate = "timer"
    /\ CallContinueConversation(reqMessages)
    /\ UNCHANGED <<messages, loading, provider, providerCalls, toolExecs, toasts, notes, quiz, search, tool, quizV2Vars>>

\* clearChat: the button is rendered while messages.length > 0
ClearChat ==
    /\ Len(messages) > 0
    /\ messages' = <<>>
    /\ UNCHANGED <<loading, cstate, reqMessages, resp, provider, providerCalls, toolExecs, toasts, notes, quiz, search, tool, quizV2Vars>>

Init ==
    /\ messages = <<>>
    /\ loading = FALSE
    /\ cstate = "idle"
    /\ reqMessages = <<>>
    /\ resp = NoResponse
    /\ provider = ProviderMessage(<<>>)
    /\ providerCalls = 0
    /\ toolExecs = <<>>
    /\ toasts = 0
    /\ notes = <<>>
    /\ quiz = NoQuiz
    /\ search = NoSearch
    /\ tool = NoTool
    /\ quizzes = <<>>
    /\ store = NoStore
    /\ ui = InitialQuizState
    /\ calls = EmptyBag

Next ==
    \/ SendMessage
    \/ ServeChat
    \/ HandleResponse
    \/ HandleError
    \/ TimerFires
    \/ ClearChat

Spec == Init /\ [][Next]_vars

\* the loop with what the platform guarantees: a request is answered or fails,
\* a settled promise runs its continuation, a timer fires
SpecLoop ==
    /\ Init
    /\ [][Next]_vars
    /\ WF_vars(ServeChat)
    /\ WF_vars(HandleResponse)
    /\ WF_vars(HandleError)
    /\ WF_vars(TimerFires)

\* the decision steps, over any of the note stores
InitQuiz ==
    /\ messages = <<>>
    /\ loading = FALSE
    /\ cstate = "idle"
    /\ reqMessages = <<>>
    /\ resp = NoResponse
    /\ provider = ProviderMessage(<<>>)
    /\ providerCalls = 0
    /\ toolExecs = <<>>
    /\ toasts = 0
    /\ notes \in NoteStores
    /\ quiz = NoQuiz
    /\ search = NoSearch
    /\ tool = NoTool
    /\ quizzes = <<Quiz(1, QuizV2Configuration(3, <<TopicCache>>), <<>>)>>
    /\ store = NoStore
    /\ ui = InitialQuizState
    /\ calls = EmptyBag

NextQuiz ==
    \/ CallConductQuizV2
    \/ CallConductQuiz
    \/ CallConfigureQuiz
    \/ CallConfigureQuizV2
    \/ CallRankNotes
    \/ ReturnQuiz

SpecQuiz == InitQuiz /\ [][NextQuiz]_vars

\* the note search, over any of the search stores
InitSearch ==
    /\ messages = <<>>
    /\ loading = FALSE
    /\ cstate = "idle"
    /\ reqMessages = <<>>
    /\ resp = NoResponse
    /\ provider = ProviderMessage(<<>>)
    /\ providerCalls = 0
    /\ toolExecs = <<>>
    /\ toasts = 0
    /\ notes \in SearchStores
    /\ quiz = NoQuiz
    /\ search = NoSearch
    /\ tool = NoTool
    /\ quizzes = <<>>
    /\ store = NoStore
    /\ ui = InitialQuizState
    /\ calls = EmptyBag

NextSearch ==
    \/ CallSearchNotesByContent
    \/ ReturnSearch

SpecSearch == InitSearch /\ [][NextSearch]_vars

\* the read_note tool, over any of the note stores
InitTools ==
    /\ messages = <<>>
    /\ loading = FALSE
    /\ cstate = "idle"
    /\ reqMessages = <<>>
    /\ resp = NoResponse
    /\ provider = ProviderMessage(<<>>)
    /\ providerCalls = 0
    /\ toolExecs = <<>>
    /\ toasts = 0
    /\ notes \in ToolStores
    /\ quiz = NoQuiz
    /\ search = NoSearch
    /\ tool = NoTool
    /\ quizzes = <<>>
    /\ store = NoStore
    /\ ui = InitialQuizState
    /\ calls = EmptyBag

NextTools ==
    \/ CallReadNote
    \/ ReturnTool

SpecTools == InitTools /\ [][NextTools]_vars

\* the quiz store service, from an empty store
InitStore == InitTools /\ notes = <<Note8, Note9>>

NextStore ==
    \/ CallCreateQuiz
    \/ CallUpdateQuiz
    \/ ReturnStore

SpecStore == InitStore /\ [][NextStore]_vars

\* the quiz page with the quiz store behind it
InitQuizV2 == InitStore

NextQuizV2 ==
    \/ StartConfiguration
    \/ ConfigureReturns
    \/ CreateReturns
    \/ AutoStartNextQuestion
    \/ AutoConductReturns
    \/ AutoUpdateReturns
    \/ SendQuizMessage
    \/ SendConductReturns
    \/ ResetQuiz

SpecQuizV2 == InitQuizV2 /\ [][NextQuizV2]_vars

-----------------------------------------------------------------------------
(* Properties of the continuation loop *)

\* a successful response is being handled by continueConversation in this step
HandlesOk == cstate = "inflight" /\ resp.status = "ok" /\ resp'.status = "none"

\* the /agent/chat request is served (the provider is called) in this step
Serves == cstate = "inflight" /\ resp.status = "none" /\ resp'.status # "none"

\* the number of assistant messages after the last user message
RECURSIVE AssistantTurns(_)
AssistantTurns(msgs) ==
    IF msgs = <<>> \/ Last(msgs).role = "user" THEN 0
    ELSE (IF Last(msgs).role = "assistant" THEN 1 ELSE 0) + AssistantTurns(SubSeq(msgs, 1, Len(msgs) - 1))

\* C1: the loop issues a further provider round if and only if the last message
\* returned by the previous round has role "tool"; otherwise it stops (loading
\* becomes false, nothing is scheduled); a conversation ending in a tool message
\* leads to exactly one more provider call, on that conversation, before the
\* condition is evaluated again.
C1_ContinuesIffLastIsTool ==
    /\ [][HandlesOk =>
            /\ (cstate' = "timer") <=> (Last(resp.messages).role = "tool")
            /\ Last(resp.messages).role = "tool" => (reqMessages' = resp.messages /\ loading' = loading)
            /\ Last(resp.messages).role # "tool" => (cstate' = "idle" /\ loading' = FALSE)]_vars
    /\ [][cstate = "timer" /\ cstate' # "timer" =>
            /\ cstate' = "inflight"
            /\ reqMessages' = reqMessages
            /\ resp'.status = "none"
            /\ providerCalls' = providerCalls]_vars
    /\ [][providerCalls' # providerCalls /\ providerCalls' # 0 =>
            Serves /\ providerCalls' = providerCalls + 1]_vars
    /\ [](cstate = "timer" => Last(reqMessages).role = "tool" /\ providerCalls = AssistantTurns(reqMessages))
    /\ [](cstate = "idle" => resp.status = "none" /\ ~loading)

\* C1 witness: the loop went through two tool rounds and then stopped
C1_Witness ==
    /\ cstate = "idle"
    /\ ~loading
    /\ providerCalls = 3
    /\ Len(messages) = 6
    /\ messages[3].role = "tool"
    /\ messages[5].role = "tool"
    /\ messages[6].role = "assistant"

\* the tool_use blocks of the last provider response, in the order requested
Requested == SelectSeq(provider.content, LAMBDA b : b.type = "tool_use")

\* a successful round has been served and its response is not handled yet
RoundServed == cstate = "inflight" /\ resp.status = "ok"

\* C2: a successful round with k tool calls appends exactly one assistant message
\* followed by exactly k tool messages, the i-th carrying a single ToolResult whose
\* ToolCallID is the id of the i-th tool call requested; with k = 0 only the
\* assistant message is appended.
C2_OneAssistantThenKToolMessages ==
    RoundServed =>
        LET k == Len(Requested)
            n == Len(reqMessages)
            out == resp.messages
        IN /\ Len(out) = n + 1 + k
           /\ SubSeq(out, 1, n) = reqMessages
           /\ out[n + 1].role = "assistant"
           /\ Len(out[n + 1].tool_calls) = k
           /\ \A i \in 1..k :
                /\ out[n + 1 + i].role = "tool"
                /\ Len(out[n + 1 + i].tool_results) = 1
                /\ out[n + 1 + i].tool_results[1].tool_call_id = Requested[i].id
                /\ out[n + 1].tool_calls[i].id = Requested[i].id
           /\ (k = 0 => Last(out).role = "assistant")

\* C2 witness: a round with two tool calls of different ids
C2_Witness ==
    /\ RoundServed
    /\ Len(Requested) = 2
    /\ Requested[1].id = "tu2"
    /\ Requested[2].id = "tu1"

\* the tool use fails when dispatched: no such tool, or the tool rejects its input
DispatchFails(u) == u.name # "get_weather" \/ u.input.kind # "string"

\* C3: a failing tool dispatch becomes a tool message with content "Error: <message>";
\* the round still succeeds and every tool call of the turn is still dispatched.
C3_ToolFailureBecomesText ==
    (cstate = "inflight" /\ resp.status # "none" /\ ~provider.err) =>
        /\ resp.status = "ok"
        /\ toolExecs = [i \in 1..Len(Requested) |-> Requested[i].name]
        /\ Len(resp.messages) = Len(reqMessages) + 1 + Len(Requested)
        /\ \A i \in 1..Len(Requested) :
            LET content == resp.messages[Len(reqMessages) + 1 + i].tool_results[1].content
                u == Requested[i]
            IN /\ (u.name # "get_weather" =>
                      content = "Error: tool " \o u.name \o " not found")
               /\ (u.name = "get_weather" /\ u.input.kind # "string" =>
                      content = "Error: failed to parse weather tool input: json: cannot unmarshal "
                                \o u.input.kind \o " into Go struct field WeatherToolInput.city of type string")
               /\ (~DispatchFails(u) => content = "The weather in " \o u.input.value \o " is 20 degrees")

\* C3 witness: the first tool call fails, the second one is dispatched and succeeds
C3_Witness ==
    /\ RoundServed
    /\ Len(Requested) = 2
    /\ DispatchFails(Requested[1])
    /\ ~DispatchFails(Requested[2])
    /\ Len(toolExecs) = 2

\* C4: a provider failure aborts the round: the server returns an error and no
\* conversation, dispatches no tool, the client shows the error, keeps its
\* conversation, clears loading, and no call is issued again by either side.
C4_ProviderFailureAborts ==
    /\ [][Serves /\ provider'.err =>
            /\ resp'.status = "err"
            /\ resp'.messages = <<>>
            /\ toolExecs' = <<>>
            /\ providerCalls' = providerCalls + 1]_vars
    /\ [][cstate = "inflight" /\ resp.status = "err" /\ resp' # resp =>
            /\ cstate' = "idle"
            /\ loading' = FALSE
            /\ toasts' = toasts + 1
            /\ messages' = messages
            /\ providerCalls' = providerCalls]_vars
    /\ [](resp.status = "err" => resp.messages = <<>>)

\* C4 witness: the provider failed in the second round of a loop, and the client has stopped
C4_Witness ==
    /\ cstate = "idle"
    /\ provider.err
    /\ toasts = 1
    /\ providerCalls = 2
    /\ ~loading

\* the conversations the loop holds: the displayed one, the one sent, the one returned
Conversations == {messages, reqMessages, resp.messages}

\* C12: in every conversation the loop produces from a conversation without tool
\* messages, each ToolResult carries the id of a ToolCall of an assistant message
\* that stands earlier in the same conversation.
C12_ToolResultsReferToEarlierToolCalls ==
    \A msgs \in Conversations :
        \A j \in 1..Len(msgs) :
            \A k \in 1..Len(msgs[j].tool_results) :
                \E i \in 1..(j - 1) :
                    /\ msgs[i].role = "assistant"
                    /\ \E c \in 1..Len(msgs[i].tool_calls) :
                          msgs[i].tool_calls[c].id = msgs[j].tool_results[k].tool_call_id

\* C12 witness: a conversation of two tool rounds whose results carry different ids
C12_Witness ==
    /\ Len(messages) = 6
    /\ messages[3].role = "tool"
    /\ messages[3].tool_results[1].tool_call_id = "tu1"
    /\ messages[5].role = "tool"
    /\ messages[5].tool_results[1].tool_call_id = "tu2"

\* C13 as stated: the message directly before any tool message is the assistant
\* message that holds the ToolCall the tool message answers, also when the
\* assistant turn asked for several tool calls.
C13_ToolMessageDirectlyFollowsItsAssistant ==
    \A msgs \in Conversations :
        \A j \in 1..Len(msgs) :
            msgs[j].role = "tool" =>
                /\ j > 1
                /\ msgs[j - 1].role = "assistant"
                /\ \E c \in 1..Len(msgs[j - 1].tool_calls) :
                      msgs[j - 1].tool_calls[c].id = msgs[j].tool_results[1].tool_call_id

\* C13 amended: the tool messages that answer an assistant message follow it as
\* one block with nothing in between: the i-th message after the assistant
\* message answers its i-th tool call, so only the answer to the first tool call
\* stands directly behind the assistant message.
C13_ToolMessagesFollowTheirAssistantAsABlock ==
    \A msgs \in Conversations :
        \A j \in 1..Len(msgs) :
            msgs[j].role = "tool" =>
                \E i \in 1..(j - 1) :
                    /\ msgs[i].role = "assistant"
                    /\ \A m \in (i + 1)..j : msgs[m].role = "tool"
                    /\ j - i <= Len(msgs[i].tool_calls)
                    /\ Len(msgs[j].tool_results) = 1
                    /\ msgs[i].tool_calls[j - i].id = msgs[j].tool_results[1].tool_call_id

\* C13 witness: an assistant turn with two tool calls answered by two tool messages
C13_Witness ==
    /\ Len(messages) >= 4
    /\ messages[2].role = "assistant"
    /\ Len(messages[2].tool_calls) = 2
    /\ messages[2].tool_calls[1].id # messages[2].tool_calls[2].id
    /\ messages[3].role = "tool"
    /\ messages[4].role = "tool"

\* C14: a round of ProcessMessage returns its input conversation, unchanged, as a
\* proper prefix of the conversation it returns, and leaves the caller's list as
\* it was.
C14_ConversationIsAppendOnly ==
    [][Serves /\ resp'.status = "ok" =>
        /\ IsPrefix(reqMessages, resp'.messages)
        /\ Len(resp'.messages) > Len(reqMessages)
        /\ reqMessages' = reqMessages]_vars

\* C14 witness: a round served on a conversation that already holds a tool round
C14_Witness ==
    /\ RoundServed
    /\ Len(reqMessages) = 3
    /\ reqMessages[3].role = "tool"
    /\ Len(resp.messages) = 5
    /\ resp.messages[5].role = "tool"

\* C23: the loop has no round limit: after any number of rounds a response that
\* ends in a tool message schedules the next round, and the scheduled round calls
\* the provider once more; the loop stops (idle, loading off) once a response
\* without tool calls or a failure arrives.
C23_LoopHasNoRoundLimit ==
    /\ [][HandlesOk /\ Last(resp.messages).role = "tool" =>
            cstate' = "timer" /\ loading' /\ reqMessages' = resp.messages]_vars
    /\ \A n \in 0..MaxMsgs :
          (cstate = "timer" /\ providerCalls = n) ~> (providerCalls = n + 1)
    /\ (cstate = "inflight" /\ resp.status = "ok" /\ Last(resp.messages).role # "tool")
          ~> (cstate = "idle" /\ ~loading)
    /\ (cstate = "inflight" /\ resp.status = "err") ~> (cstate = "idle" /\ ~loading)

\* C23 witness: after two provider rounds the loop has scheduled a third
C23_Witness ==
    /\ cstate = "timer"
    /\ loading
    /\ providerCalls = 2
    /\ Len(reqMessages) = 5

\* C24: when the request that sendMessage issued fails, the user message it added
\* is taken back: the displayed conversation is the one from before the send,
\* and loading is off.
C24_FailedSendRemovesUserMessage ==
    [][(cstate = "inflight" /\ resp.status = "err" /\ Last(reqMessages).role = "user"
        /\ resp' # resp) =>
            /\ messages' = SubSeq(reqMessages, 1, Len(reqMessages) - 1)
            /\ loading' = FALSE]_vars

\* C27: a cleared conversation stays empty until the user sends a message: no
\* response restores the old conversation, and no scheduled continuation calls
\* the provider for it.
C27_ClearedChatStaysEmptyUntilNextSend ==
    /\ [][messages = <<>> /\ messages' # <<>> =>
            /\ cstate = "idle"
            /\ Len(messages') = 1
            /\ messages'[1].role = "user"]_vars
    /\ [][messages = <<>> /\ cstate = "timer" => cstate' = "timer"]_vars

-----------------------------------------------------------------------------
(* Properties of the decision steps *)

ConductSteps == {"conduct", "conductV2"}
ConfigureSteps == {"configure", "configureV2"}

\* the closed vocabulary of a protocol step
DecisionSet(step) ==
    IF step \in ConductSteps THEN {"continue_quiz", "evaluate_answer"}
    ELSE IF step \in ConfigureSteps THEN {"continue_interview", "finalize_quiz_config"}
    ELSE {"rank_notes"}

\* the tool calls of the provider response of the step that ran
QuizToolCalls == IF quiz.response.choices = <<>> THEN <<>> ELSE quiz.response.choices[1].toolCalls

\* the step ran as far as a provider response that is not an error
ProviderAnswered == quiz.step # "none" /\ quiz.result.llmCalled /\ ~quiz.response.err

\* C5: the result of a conduct or configure step is exactly one member of its
\* decision set: conduct gives "continue" without an Evaluation or "evaluate" with
\* one; configure gives "continue" without a Config or "configure" with one.
C5_ExactlyOneDecision ==
    LET r == quiz.result
    IN /\ (quiz.step \in ConductSteps /\ r.returned) =>
            /\ r.type \in {"continue", "evaluate"}
            /\ (r.type = "continue") <=> (r.evaluation = Nil)
            /\ (r.type = "evaluate") <=> (r.evaluation # Nil)
            /\ r.config = Nil
            /\ r.err = ""
       /\ (quiz.step \in ConfigureSteps /\ r.returned) =>
            /\ r.type \in {"continue", "configure"}
            /\ (r.type = "continue") <=> (r.config = Nil)
            /\ (r.type = "configure") <=> (r.config # Nil)
            /\ r.evaluation = Nil
            /\ r.err = ""

\* C5 witness: a conduct step returned an evaluation
C5_Witness ==
    /\ quiz.step = "conductV2"
    /\ quiz.result.returned
    /\ quiz.result.type = "evaluate"
    /\ quiz.result.evaluation # Nil
    /\ Len(QuizToolCalls) = 1

\* C6: a decision step fails and returns no result when the provider response has
\* no tool call, when the tool call it reads names a tool outside the step's
\* decision set, or when that call's arguments fail to parse; it never answers
\* "continue" by default.  (Responses with several tool calls: see C7.)
C6_MalformedDecisionFails ==
    (ProviderAnswered /\
        (\/ QuizToolCalls = <<>>
         \/ QuizToolCalls[1].name \notin DecisionSet(quiz.step)
         \/ ~QuizToolCalls[1].arguments.wellFormed)) =>
        /\ quiz.result.err # ""
        /\ ~quiz.result.returned
        /\ quiz.result.type = ""
        /\ quiz.result.rankedNotes = <<>>

\* C6 witness: a conduct step was answered with a tool outside its decision set
C6_Witness ==
    /\ quiz.step = "conductV2"
    /\ ProviderAnswered
    /\ Len(QuizToolCalls) = 1
    /\ QuizToolCalls[1].name = "rank_notes"
    /\ QuizToolCalls[1].arguments.wellFormed
    /\ quiz.result.err = "unknown function call"

\* C7: a decision step yields a result only when the provider returned exactly
\* one tool call.
C7_ResultOnlyFromExactlyOneToolCall ==
    (quiz.step # "none" /\ quiz.result.returned) => Len(QuizToolCalls) = 1

\* C8: a conduct step called with an empty message history resolves to a
\* question ("continue"), never to an evaluation.
C8_FirstRoundIsNeverAnEvaluation ==
    (quiz.step \in ConductSteps /\ quiz.messages = <<>> /\ quiz.result.returned) =>
        quiz.result.type = "continue"

\* C9: a ranking returned by RankNotes covers every requested note id.
C9_RankingsCoverRequestedIDs ==
    (quiz.step = "rank" /\ quiz.result.returned) =>
        \A i \in 1..Len(quiz.noteIDs) :
            \E j \in 1..Len(quiz.result.rankedNotes) :
                quiz.result.rankedNotes[j].note_id = quiz.noteIDs[i]

\* the requested ids that no stored note has, in request order
MissingFromStore == SelectSeq(quiz.noteIDs, LAMBDA id : \A i \in 1..Len(notes) : notes[i].id # id)

\* C10: when a requested note id is not in the note store, the rank step fails
\* and returns no ranking; the error is the not-found error listing exactly the
\* requested ids that are missing (for a request that has a topic: a request
\* without topics is rejected by the input validation that runs first).
C10_MissingNotesAreReported ==
    (quiz.step = "rank" /\ MissingFromStore # <<>>) =>
        /\ quiz.result.err # ""
        /\ ~quiz.result.returned
        /\ quiz.result.rankedNotes = <<>>
        /\ ~quiz.result.llmCalled
        /\ (quiz.topics # <<>> =>
                quiz.result.err = "note IDs not found" /\ quiz.result.missingIDs = MissingFromStore)
        /\ (quiz.result.err = "note IDs not found" => quiz.result.missingIDs = MissingFromStore)

\* C10 witness: ids 1 and 3 requested from a store holding notes 1 and 2
C10_Witness ==
    /\ quiz.step = "rank"
    /\ notes = <<Note1, Note2>>
    /\ quiz.noteIDs = <<1, 3>>
    /\ quiz.topics # <<>>
    /\ quiz.result.missingIDs = <<3>>

\* C29: the note-existence check of RankNotes and ConductQuiz rejects a request
\* only if a requested id is absent from the store: it passes when every
\* requested id is stored, repeated ids included, and when it fails the list of
\* missing ids it reports is not empty.
C29_NoteCheckRejectsOnlyAbsentIDs ==
    (quiz.step \in {"rank", "conduct"} /\ quiz.noteIDs # <<>> /\ quiz.topics # <<>>) =>
        /\ (MissingFromStore = <<>> => quiz.result.err # "note IDs not found")
        /\ (quiz.result.err = "note IDs not found" => quiz.result.missingIDs # <<>>)

\* the first tool call of the response is a finalize_quiz_config that parses
FinalizeChosen ==
    /\ ProviderAnswered
    /\ QuizToolCalls # <<>>
    /\ QuizToolCalls[1].name = "finalize_quiz_config"
    /\ QuizToolCalls[1].arguments.wellFormed

\* the topics of the finalize call
FinalizedTopics == QuizToolCalls[1].arguments.topics

\* no stored note has content for the finalized topics
NoContentFound ==
    \/ notes = <<>>
    \/ /\ FinalizedTopics # <<>>
       /\ \A i \in 1..Len(notes) : ~noteMatchesSearch(notes[i], FinalizedTopics)

\* C11 as stated: in either configure step, a finalize_quiz_config for topics no
\* content is found for yields a "continue" response without a Config, not a
\* failure and not a configuration.
C11_NoContentYieldsContinue ==
    (quiz.step \in ConfigureSteps /\ FinalizeChosen /\ NoContentFound) =>
        /\ quiz.result.returned
        /\ quiz.result.err = ""
        /\ quiz.result.type = "continue"
        /\ quiz.result.config = Nil

\* C11 amended: ConfigureQuiz answers a finalize_quiz_config whose topics match
\* no note with a "continue" response (no error, no Config) that asks about those
\* topics, and with a configuration of the matching notes otherwise;
\* ConfigureQuizV2 looks for no content and always answers with a configuration
\* that carries the topics verbatim.
C11_NoMatchingNoteYieldsContinue ==
    /\ (quiz.step = "configure" /\ FinalizeChosen /\ NoContentFound) =>
            /\ quiz.result.returned
            /\ quiz.result.err = ""
            /\ quiz.result.type = "continue"
            /\ quiz.result.config = Nil
            /\ quiz.result.message.about = JoinStrings(FinalizedTopics, <<",", " ">>)
    /\ (quiz.step = "configure" /\ FinalizeChosen /\ ~NoContentFound) =>
            /\ quiz.result.type = "configure"
            /\ quiz.result.config # Nil
            /\ quiz.result.config[1].note_ids # <<>>
    /\ (quiz.step = "configureV2" /\ FinalizeChosen) =>
            /\ quiz.result.returned
            /\ quiz.result.type = "configure"
            /\ quiz.result.config # Nil
            /\ quiz.result.config[1].topics = FinalizedTopics

\* C11 witness: notes are stored, none of them is about the finalized topic
C11_Witness ==
    /\ quiz.step = "configure"
    /\ FinalizeChosen
    /\ notes # <<>>
    /\ FinalizedTopics = <<TopicBlockchain>>
    /\ quiz.result.type = "continue"

\* the step was called with input its validation refuses
InvalidInput ==
    \/ quiz.step \in {"rank", "conduct"} /\ (quiz.noteIDs = <<>> \/ quiz.topics = <<>>)
    \/ quiz.step = "conductV2" /\ quiz.quizID <= 0

\* C15: RankNotes and ConductQuiz called without note ids or without topics, and
\* ConductQuizV2 called with a quiz id below 1, return an error and no result
\* without having called the provider.
C15_InvalidInputRejectedBeforeProvider ==
    InvalidInput =>
        /\ quiz.result.err # ""
        /\ ~quiz.result.returned
        /\ ~quiz.result.llmCalled
        /\ (quiz.step = "conductV2" => quiz.result.err = "invalid quiz ID")
        /\ (quiz.step # "conductV2" /\ quiz.noteIDs = <<>> =>
                quiz.result.err = "at least one note ID is required")
        /\ (quiz.step # "conductV2" /\ quiz.noteIDs # <<>> =>
                quiz.result.err = "at least one topic is required")

\* C15 witness: a ranking of stored notes was requested without topics, and the
\* provider would have answered with a usable ranking
C15_Witness ==
    /\ quiz.step = "rank"
    /\ quiz.noteIDs = <<1, 2>>
    /\ MissingFromStore = <<>>
    /\ quiz.topics = <<>>
    /\ ~quiz.response.err
    /\ QuizToolCalls # <<>>
    /\ QuizToolCalls[1].name = "rank_notes"
    /\ QuizToolCalls[1].arguments.wellFormed
    /\ ~quiz.result.llmCalled

\* C20: the list a successful RankNotes returns is sorted by score, highest
\* first: no entry has a lower score than the entry behind it.
C20_RankedNotesSortedByScoreDescending ==
    (quiz.step = "rank" /\ quiz.result.returned) =>
        /\ \A i \in 1..(Len(quiz.result.rankedNotes) - 1) :
              quiz.result.rankedNotes[i].score >= quiz.result.rankedNotes[i + 1].score
        /\ Len(quiz.result.rankedNotes) = Len(QuizToolCalls[1].arguments.rankings)
        /\ \A r \in {NoteRanking(id, sc) : id \in RankedIDs, sc \in Scores} :
              Cardinality({i \in 1..Len(quiz.result.rankedNotes) : quiz.result.rankedNotes[i] = r})
                = Cardinality({i \in 1..Len(QuizToolCalls[1].arguments.rankings) :
                                 QuizToolCalls[1].arguments.rankings[i] = r})

\* C20 witness: the provider ranked the lower score first, the result has it last
C20_Witness ==
    /\ quiz.step = "rank"
    /\ quiz.result.returned
    /\ QuizToolCalls[1].arguments.rankings = <<NoteRanking(1, 2), NoteRanking(2, 9)>>
    /\ quiz.result.rankedNotes = <<NoteRanking(2, 9), NoteRanking(1, 2)>>

-----------------------------------------------------------------------------
(* Properties of the note search *)

Min3(a, b, c) == IF a <= b /\ a <= c THEN a ELSE IF b <= c THEN b ELSE c

RECURSIVE LevRow(_, _, _, _)
\* the row of the edit-distance table for the character c, from the row before it
LevRow(prev, c, t, cur) ==
    IF Len(cur) = Len(t) + 1 THEN cur
    ELSE LET j == Len(cur)
             cost == IF c = t[j] THEN 0 ELSE 1
         IN LevRow(prev, c, t, Append(cur, Min3(prev[j + 1] + 1, cur[j] + 1, prev[j] + cost)))

RECURSIVE LevFrom(_, _, _)
LevFrom(s, t, prev) ==
    IF s = <<>> THEN prev[Len(t) + 1]
    ELSE LevFrom(Tail(s), t, LevRow(prev, Head(s), t, <<prev[1] + 1>>))

\* the edit distance (insertions, deletions, substitutions) between s and t
Levenshtein(s, t) == LevFrom(s, t, [j \in 1..(Len(t) + 1) |-> j - 1])

\* the term occurs in the content, letter case ignored
IsSubstringFold(term, content) ==
    \E i \in 0..(Len(content) - Len(term)) :
        \A k \in 1..Len(term) : LowerChar(content[i + k]) = LowerChar(term[k])

\* the words of the content, surrounding punctuation stripped, longer than 2 characters
WordsOf(content) ==
    LET words == Fields(ToLower(content))
    IN {TrimCutset(words[i]) : i \in {k \in 1..Len(words) : Len(TrimCutset(words[k])) > 2}}

\* the length-dependent maximum distance the claims state
StepBound(termLen) == IF termLen <= 4 THEN 1 ELSE IF termLen <= 7 THEN 2 ELSE 3

\* some word of the note is within the maximum edit distance of the term
WithinEditDistance(term, note) ==
    \E w \in WordsOf(note.content) : Levenshtein(ToLower(term), w) <= StepBound(Len(term))

Returned(note) == \E i \in 1..Len(search.result) : search.result[i] = note

TermsOf == {search.terms[i] : i \in 1..Len(search.terms)}

StoredNotes == {notes[i] : i \in 1..Len(notes)}

\* C16: a note is accepted for a term that is not a substring of its content
\* whenever one of its words (punctuation stripped, longer than 2 characters) is
\* within the length-dependent maximum edit distance of the term.
C16_WordWithinEditDistanceIsAccepted ==
    search.called =>
        \A note \in StoredNotes, term \in TermsOf :
            (~IsSubstringFold(term, note.content) /\ WithinEditDistance(term, note)) => Returned(note)

\* C17: the maximum accepted distance depends on the length of the term only: 1
\* up to length 4, 2 for lengths 5 to 7, 3 above; it never decreases as terms get
\* longer; a note accepted without a substring match has a word within that
\* edit distance of one of the terms.
C17_MaxDistanceIsAStepFunctionOfTermLength ==
    search.called =>
        /\ \A term \in TermsOf : calculateMaxDistance(ToLower(term)) = StepBound(Len(term))
        /\ \A t1 \in TermsOf, t2 \in TermsOf :
              Len(t1) <= Len(t2) => calculateMaxDistance(t1) <= calculateMaxDistance(t2)
        /\ (search.terms # <<>> =>
              \A note \in StoredNotes :
                (Returned(note) /\ \A term \in TermsOf : ~IsSubstringFold(term, note.content)) =>
                    \E term \in TermsOf : WithinEditDistance(term, note))

\* C17 witness: the long term is accepted at distance 3 ("replication") and refused
\* at distance 4 ("replications"), the short term is refused at distance 2 ("cache")
C17_Witness ==
    /\ search.called
    /\ notes = <<Note1, Note4, Note5>>
    /\ search.terms = <<<<"c", "c", "e">>, <<"r", "p", "l", "i", "c", "t", "o", "n">>>>
    /\ search.result = <<Note4>>

\* C18: a note whose content holds a term as a substring, letter case ignored, is
\* accepted whatever the length of the term and whatever the fuzzy thresholds
\* and the minimum word length would say.
C18_SubstringIsAlwaysAccepted ==
    search.called =>
        \A note \in StoredNotes, term \in TermsOf :
            IsSubstringFold(term, note.content) => Returned(note)

\* C18 witness: the term "dat" finds the note about a database, none of whose
\* words is within the distance allowed for a term of 3 characters
C18_Witness ==
    /\ search.called
    /\ search.terms = <<<<"d", "a", "t">>>>
    /\ search.result = <<Note4>>
    /\ \A note \in StoredNotes, term \in TermsOf :
          IsSubstringFold(term, note.content) =>
            \A w \in WordsOf(note.content) :
                Levenshtein(ToLower(term), w) > StepBound(Len(term))

-----------------------------------------------------------------------------
(* Properties of the read_note tool *)

\* the stored note the last read_note call asked for, <<>> if there is none
RequestedNote == SelectSeq(notes, LAMBDA note : note.id = tool.input.note_id)

\* lines are the lines of content: joined by line breaks they give content back,
\* and no line holds a line break
IsLinesOf(lines, content) ==
    /\ Len(lines) >= 1
    /\ JoinStrings(lines, <<"\n">>) = content
    /\ \A i \in 1..Len(lines) : \A j \in 1..Len(lines[i]) : lines[i][j] # "\n"

\* C30: a read_note call returns an error or exactly the lines start..end of the
\* stored note (1-based, inclusive), where start is the requested start line, 1
\* if that is 0 or less, end is the requested end line, the number of lines if
\* that is 0 or less or beyond the last line, and 1 <= start <= end <= number of
\* lines.
C30_ReadNoteReturnsClampedLineRange ==
    (tool.name = "read_note" /\ tool.result.err = "") =>
        /\ tool.input.wellFormed
        /\ RequestedNote # <<>>
        /\ LET content == RequestedNote[1].content
               lines == SplitLines(content)
               totalLines == Len(lines)
               start == IF tool.input.line_number_start <= 0 THEN 1
                        ELSE tool.input.line_number_start
               end == IF tool.input.line_number_end <= 0 \/ tool.input.line_number_end > totalLines
                      THEN totalLines
                      ELSE tool.input.line_number_end
           IN /\ IsLinesOf(lines, content)
              /\ 1 <= start /\ start <= end /\ end <= totalLines
              /\ tool.result.note_id = tool.input.note_id
              /\ tool.result.line_start = start
              /\ tool.result.line_end = end
              /\ tool.result.total_lines = totalLines
              /\ tool.result.content = JoinStrings(SubSeq(lines, start, end), <<"\n">>)

\* C30 witness: lines 2.. of the three-line note 7 were read without an end line
C30_Witness ==
    /\ tool.name = "read_note"
    /\ notes = <<Note3, Note6, Note7>>
    /\ tool.input = ReadNoteToolInput(TRUE, 7, 2, 0)
    /\ tool.result.err = ""
    /\ tool.result.line_start = 2
    /\ tool.result.line_end = 3
    /\ tool.result.content = <<"\n", "b">>

-----------------------------------------------------------------------------
(* Properties of the quiz store *)

\* a topic of nothing but white space (the empty topic included)
IsBlank(topic) == \A j \in 1..Len(topic) : IsSpace(topic[j])

\* a topic that neither starts nor ends with white space
IsTrimmed(topic) == topic # <<>> /\ ~IsSpace(topic[1]) /\ ~IsSpace(topic[Len(topic)])

\* the create request breaks a condition on the question count or on the topics
ViolatesCreateConditions(req) ==
    \/ req.config.question_count < 1
    \/ req.config.question_count > 5
    \/ req.config.topics = <<>>
    \/ \E i \in 1..Len(req.config.topics) : IsBlank(req.config.topics[i])

\* the record has a question count from 1 to 5 and at least one topic, each
\* trimmed and not blank
WellFormedQuiz(q) ==
    /\ q.config.question_count \in 1..5
    /\ q.config.topics # <<>>
    /\ \A i \in 1..Len(q.config.topics) :
          IsTrimmed(q.config.topics[i]) /\ ~IsBlank(q.config.topics[i])

\* C22: every record a successful CreateQuiz stores has an empty asked-questions
\* list, a question count from 1 to 5 and at least one topic, each stored topic
\* being the request's topic trimmed and not blank; a request that breaks the
\* count or topic conditions fails without a query to the vector index and
\* without storing anything.
C22_CreateQuizStoresOnlyValidQuizzes ==
    /\ [](\A i \in 1..Len(quizzes) : WellFormedQuiz(quizzes[i]))
    /\ []((store.op = "create" /\ store.result.err = "") =>
            /\ store.result.queried
            /\ store.result.quiz = <<quizzes[Len(quizzes)]>>
            /\ quizzes[Len(quizzes)].asked_questions = <<>>
            /\ quizzes[Len(quizzes)].config.question_count = store.req.config.question_count
            /\ Len(quizzes[Len(quizzes)].config.topics) = Len(store.req.config.topics)
            /\ \A i \in 1..Len(store.req.config.topics) :
                  /\ IsPrefix(quizzes[Len(quizzes)].config.topics[i],
                              TrimSpaceLeft(store.req.config.topics[i]))
                  /\ Contains(store.req.config.topics[i], quizzes[Len(quizzes)].config.topics[i]))
    /\ []((store.op = "create" /\ ViolatesCreateConditions(store.req)) =>
            store.result.err # "" /\ ~store.result.queried /\ store.result.quiz = Nil)
    /\ [][(store'.op = "create" /\ ViolatesCreateConditions(store'.req)) =>
            quizzes' = quizzes]_vars

\* C22 witness: a quiz of five questions was created from a padded topic and a
\* plain one, and the padded topic is stored trimmed
C22_Witness ==
    /\ store.op = "create"
    /\ store.req.config = QuizV2Configuration(5, <<TopicPadded, TopicCache>>)
    /\ store.result.err = ""
    /\ quizzes = <<Quiz(1, QuizV2Configuration(5, <<TopicSql, TopicCache>>), <<>>)>>

-----------------------------------------------------------------------------
(* Properties of the quiz page *)

\* the pending calls of the given kinds
Pending(kinds) == {c \in BagToSet(calls) : c.kind \in kinds}

\* C21: an update of a stored quiz is never refused and replaces the stored
\* asked-questions list by the list of the request, whatever list is stored: no
\* lock, version or transaction compares the two. (With the witness: two updates
\* that each append a question to the list they read leave a stored list that
\* misses one of the two questions.)
C21_UpdateOverwritesAskedQuestions ==
    (store.op = "update" /\ store.id \in 1..Len(quizzes)) =>
        /\ store.result.err = ""
        /\ quizzes[store.id].asked_questions = store.req.asked_questions

\* C21 witness: two questions were generated for quiz 1 and both updates were
\* served; the page lists both questions, the stored record only the second
C21_Witness ==
    /\ calls = EmptyBag
    /\ store.op = "update"
    /\ store.result.err = ""
    /\ Len(quizzes) = 1
    /\ CreatedQuizID(ui) = 1
    /\ Len(AskedQuestions(ui)) = 2
    /\ AskedQuestions(ui)[1] # AskedQuestions(ui)[2]
    /\ quizzes[1].asked_questions = <<AskedQuestions(ui)[2]>>

\* C26: at most one conduct request of the page is in flight, and no answer is
\* being sent while a next-question generation runs or waits for its timer.
C26_OneConductRequestAtATime ==
    /\ BagCardinality([c \in Pending({"sendConduct", "autoConduct"}) |-> calls[c]]) <= 1
    /\ Pending({"sendConduct"}) # {} => Pending({"timer", "autoConduct", "autoUpdate"}) = {}

\* C28: currentQuestionIndex is the number of recorded results; there are never
\* more results than configured questions; the step is "complete" exactly when
\* the results have reached the question count, and then no further question
\* is generated.
C28_ResultsCountedUpToQuestionCount ==
    /\ ui.currentQuestionIndex = Len(ui.quizResults)
    /\ ui.configuration # Nil =>
          /\ Len(ui.quizResults) <= ui.configuration[1].question_count
          /\ ui.step = "complete" <=> (ui.createdQuiz # Nil /\ Len(ui.quizResults) = ui.configuration[1].question_count)
    /\ ui.step = "complete" => Pending({"timer", "autoConduct", "autoUpdate"}) = {}

=============================================================================
